---- MODULE Spec2Model ----
(***************************************************************************)
(* Model of the spreadsheet ingestion pipeline of pds-main:                *)
(*   src/src/utils.py                        the inflation combiner        *)
(*   src/scripts/upload_excel_to_supabase.py the loaders and the uploader  *)
(*   src/src/kurs_data.py                    the application's kurs loader *)
(*                                                                         *)
(* Text is a sequence of one-character strings, so that strip(), lower()   *)
(* and the ordering of str values are computed and not assumed.  A         *)
(* spreadsheet cell is a record [t, n, s, ts]: a number (t = "num", value  *)
(* n), a text (t = "str", characters s), a date (t = "ts", Timestamp ts)   *)
(* or an empty cell (t = "nan").  Every number is held in hundredths (475  *)
(* is 4.75, 202500 is the year 2025).                                      *)
(***************************************************************************)
EXTENDS Integers, Sequences, FiniteSets, TLC

VARIABLES
    pc,          \* position of the running entry point
    raised,      \* TRUE once an exception has left the entry point
    files,       \* the two inflation workbooks the combiner reads
    df_all,      \* result of baca_data_inflasi_excel()
    df_again,    \* result of combining df_all with itself
    bi_file,     \* the workbook BI-7Day-RR.xlsx
    jisdor_file, \* the workbook Informasi Kurs Jisdor.xlsx
    kurs_file,   \* the workbook Kurs_Jisdor.xlsx of the application
    backend_kurs, \* what supabase_client.fetch_kurs_jisdor_df() delivers
    tie_rank,    \* how this build's quicksort orders rows with equal keys
    df_bi,       \* result of _load_bi_excel()
    df_jisdor,   \* result of _load_jisdor_excel()
    df_kurs,     \* result of baca_data_kurs()
    filtered,    \* per loader, the frame right after its header-row filter
    loaded,      \* the loaders that have run
    dry_run,     \* args.dry_run of the uploader
    env_ok,      \* SUPABASE_URL and a key are set in the environment
    args_batch_size, \* args.batch_size of the uploader
    df_inflasi,  \* result of _load_inflasi_excel()
    inflasi_rows, \* payload of the table inflasi
    bi_rows,     \* payload of the table bi_7day_rr
    jisdor_rows, \* payload of the table kurs_jisdor
    table,       \* which of the three _upsert_in_batches calls is running
    i_batch,     \* the loop variable i of _upsert_in_batches
    calls,       \* the upsert requests issued by the current run, in order
    sink,        \* the three backend tables
    sink_start,  \* the backend tables when the current run started
    run,         \* how many times the script has been started
    sink_run1,   \* the backend tables when the first run printed Done
    value,       \* the argument of a parser call; the text of a raised exception
    returned,    \* what that call returned or raised
    seed_df,     \* the three tables the seed generator has loaded
    out_file,    \* the statements the seed generator has written after the schema
    session_state, \* st.session_state of one browser session of the application
    query_params, \* the state token of the URL the session was opened with
    halaman,     \* the page the latest render pass routed to
    kategori_index, \* the index argument of the "Kategori" selectbox of the latest pass
    keyed_identity, \* this Streamlit keeps a keyed widget's value when its arguments change
    passes,      \* render passes so far
    last_request \* the request the latest pass took from _app_page_pending

combinerVars == <<files, df_all, df_again>>

loaderVars ==
    <<bi_file, jisdor_file, kurs_file, backend_kurs, tie_rank, df_bi, df_jisdor, df_kurs, filtered, loaded>>

uploadVars ==
    <<dry_run, env_ok, args_batch_size, df_inflasi, inflasi_rows, bi_rows, jisdor_rows,
      table, i_batch, calls, sink, sink_start, run, sink_run1>>

parserVars == <<value, returned>>

seedVars == <<seed_df, out_file>>

appVars ==
    <<session_state, query_params, halaman, kategori_index, keyed_identity, passes, last_request>>

pipelineVars == <<combinerVars, loaderVars, uploadVars>>

\* The variables no step of the ingestion pipeline touches.
otherVars == <<parserVars, seedVars, appVars>>

\* The variables no parser call touches.
nonParserVars == <<pipelineVars, seedVars, appVars>>

\* The variables the seed generator does not touch.
nonSeedVars == <<combinerVars, loaderVars, parserVars, appVars>>

\* The variables the application does not touch.
nonAppVars == <<pc, raised, pipelineVars, parserVars, seedVars>>

vars == <<pc, raised, combinerVars, loaderVars, uploadVars, otherVars>>

\* ---------------------------------------------------------------- bounds

MaxInflasiRows == 2

MaxDailyRows == 3

MaxBatchSize == 2

MaxErrorParts == 2

MaxChunks == 2

MaxPasses == 3

\* ------------------------------------------------------------------ text

\* A pandas Timestamp: a calendar date and the hour of the day.
Timestamp(y, m, d, h) == [y |-> y, m |-> m, d |-> d, h |-> h]

NaT == Timestamp(0, 0, 0, 0)

\* A cell as pd.read_excel delivers it.  Numbers are held in hundredths; a date
\* cell (t = "ts") holds a Timestamp.
Num(n) == [t |-> "num", n |-> n, s |-> <<>>, ts |-> NaT]

DateCell(x) == [t |-> "ts", n |-> 0, s |-> <<>>, ts |-> x]

\* A cell holding the whole number k.
Whole(k) == Num(100 * k)

Txt(s) == [t |-> "str", n |-> 0, s |-> s, ts |-> NaT]

NaN == [t |-> "nan", n |-> 0, s |-> <<>>, ts |-> NaT]

isna(c) == c.t = "nan"

UpperCase ==
    <<"A", "B", "C", "D", "E", "F", "G", "H", "I", "J", "K", "L", "M",
      "N", "O", "P", "Q", "R", "S", "T", "U", "V", "W", "X", "Y", "Z">>

LowerCase ==
    <<"a", "b", "c", "d", "e", "f", "g", "h", "i", "j", "k", "l", "m",
      "n", "o", "p", "q", "r", "s", "t", "u", "v", "w", "x", "y", "z">>

DigitChars == <<"0", "1", "2", "3", "4", "5", "6", "7", "8", "9">>

IndexIn(c, alphabet) ==
    IF \E i \in 1..Len(alphabet) : alphabet[i] = c
    THEN CHOOSE i \in 1..Len(alphabet) : alphabet[i] = c
    ELSE 0

\* Code point of a character (Python orders str values by it).
Ord(c) ==
    IF IndexIn(c, UpperCase) > 0 THEN 64 + IndexIn(c, UpperCase)
    ELSE IF IndexIn(c, LowerCase) > 0 THEN 96 + IndexIn(c, LowerCase)
    ELSE IF IndexIn(c, DigitChars) > 0 THEN 47 + IndexIn(c, DigitChars)
    ELSE CASE c = " " -> 32
           [] c = "%" -> 37
           [] c = "," -> 44
           [] c = "-" -> 45
           [] c = "." -> 46
           [] c = "_" -> 95
           [] OTHER -> 0

\* str.lower() on one character.
LowerChar(c) == IF IndexIn(c, UpperCase) > 0 THEN LowerCase[IndexIn(c, UpperCase)] ELSE c

lower(s) == [i \in 1..Len(s) |-> LowerChar(s[i])]

RECURSIVE lstrip(_)
lstrip(s) == IF s # <<>> /\ Head(s) = " " THEN lstrip(Tail(s)) ELSE s

RECURSIVE rstrip(_)
rstrip(s) ==
    IF s # <<>> /\ s[Len(s)] = " " THEN rstrip(SubSeq(s, 1, Len(s) - 1)) ELSE s

strip(s) == rstrip(lstrip(s))

\* a < b for str values: lexicographic by code point.
RECURSIVE StrLess(_, _)
StrLess(a, b) ==
    IF b = <<>> THEN FALSE
    ELSE IF a = <<>> THEN TRUE
    ELSE IF Ord(Head(a)) # Ord(Head(b)) THEN Ord(Head(a)) < Ord(Head(b))
    ELSE StrLess(Tail(a), Tail(b))

IsDigit(c) == IndexIn(c, DigitChars) > 0

AllDigits(s) == s # <<>> /\ \A i \in 1..Len(s) : IsDigit(s[i])

RECURSIVE DigitsValue(_)
DigitsValue(s) ==
    IF s = <<>> THEN 0
    ELSE 10 * DigitsValue(SubSeq(s, 1, Len(s) - 1)) + (IndexIn(s[Len(s)], DigitChars) - 1)

\* str(n) for a whole number n >= 0.
RECURSIVE IntToStr(_)
IntToStr(n) ==
    IF n < 10 THEN <<DigitChars[n + 1]>>
    ELSE IntToStr(n \div 10) \o <<DigitChars[(n % 10) + 1]>>

\* str() of a number cell holding n hundredths, n >= 0.
NumToStr(n) ==
    IF n % 100 = 0 THEN IntToStr(n \div 100)
    ELSE IF n % 10 = 0 THEN IntToStr(n \div 100) \o <<".">> \o IntToStr((n % 100) \div 10)
    ELSE IntToStr(n \div 100) \o <<".">> \o <<DigitChars[((n % 100) \div 10) + 1]>>
         \o IntToStr(n % 10)

\* float(s) for an unsigned decimal text with at most two decimals, in
\* hundredths; ok is FALSE where float() raises ValueError.
float_of(s) ==
    LET dots == {i \in 1..Len(s) : s[i] = "."}
        dot  == IF dots = {} THEN Len(s) + 1 ELSE CHOOSE i \in dots : TRUE
        ip   == SubSeq(s, 1, dot - 1)
        fp   == SubSeq(s, dot + 1, Len(s))
        good == /\ Cardinality(dots) <= 1
                /\ ip \o fp # <<>>
                /\ \A i \in 1..Len(ip) : IsDigit(ip[i])
                /\ \A i \in 1..Len(fp) : IsDigit(fp[i])
                /\ Len(fp) <= 2
        frac == IF Len(fp) = 0 THEN 0
                ELSE IF Len(fp) = 1 THEN 10 * DigitsValue(fp)
                ELSE DigitsValue(fp)
    IN IF good THEN [ok |-> TRUE, v |-> 100 * DigitsValue(ip) + frac]
       ELSE [ok |-> FALSE, v |-> 0]

\* Series.astype(str) on one cell: a text is kept as it is (not stripped), an
\* empty cell becomes the text "nan", a number its decimal text.
astype_str(c) ==
    IF c.t = "str" THEN c.s
    ELSE IF c.t = "nan" THEN <<"n", "a", "n">>
    ELSE IF c.t = "ts" THEN IntToStr(c.ts.y) \o <<"-">> \o IntToStr(c.ts.m) \o <<"-">> \o IntToStr(c.ts.d)
    ELSE NumToStr(c.n)

\* pd.to_numeric(..., errors="coerce") on one cell: a number is kept, a decimal
\* text (surrounding blanks allowed) is parsed, anything else is NaN.
to_numeric(c) ==
    IF c.t = "num" THEN c
    ELSE IF c.t = "str" /\ float_of(strip(c.s)).ok THEN Num(float_of(strip(c.s)).v)
    ELSE NaN

\* Series.astype(int) on one number cell: the fraction is cut off.
astype_int(c) == Num(100 * (c.n \div 100))

\* str.replace(ch, "") for every ch of a set of characters.
RemoveChars(s, chars) == SelectSeq(s, LAMBDA c : c \notin chars)

\* str.replace(",", ".").
CommaToDot(s) == [i \in 1..Len(s) |-> IF s[i] = "," THEN "." ELSE s[i]]

\* str.split(): the maximal runs of non-blank characters.
RECURSIVE split(_)
split(s) ==
    LET u == lstrip(s)
        blanks == {i \in 1..Len(u) : u[i] = " "}
        stop == IF blanks = {} THEN Len(u) + 1
                ELSE CHOOSE i \in blanks : \A j \in blanks : i <= j
    IN IF u = <<>> THEN <<>>
       ELSE <<SubSeq(u, 1, stop - 1)>> \o split(SubSeq(u, stop, Len(u)))

\* int(s): ok is FALSE where int() raises ValueError.
int_of(s) == IF AllDigits(s) THEN [ok |-> TRUE, v |-> DigitsValue(s)] ELSE [ok |-> FALSE, v |-> 0]

\* ----------------------------------------------------------- value parsers

\* _ID_MONTH: the month names, the month number being the position.
ID_MONTH ==
    <<<<"j", "a", "n", "u", "a", "r", "i">>,
      <<"f", "e", "b", "r", "u", "a", "r", "i">>,
      <<"m", "a", "r", "e", "t">>,
      <<"a", "p", "r", "i", "l">>,
      <<"m", "e", "i">>,
      <<"j", "u", "n", "i">>,
      <<"j", "u", "l", "i">>,
      <<"a", "g", "u", "s", "t", "u", "s">>,
      <<"s", "e", "p", "t", "e", "m", "b", "e", "r">>,
      <<"o", "k", "t", "o", "b", "e", "r">>,
      <<"n", "o", "v", "e", "m", "b", "e", "r">>,
      <<"d", "e", "s", "e", "m", "b", "e", "r">>>>

\* _ID_MONTH.get(name): 0 stands for None.
id_month_get(name) == IndexIn(name, ID_MONTH)

IsLeap(y) == (y % 4 = 0 /\ y % 100 # 0) \/ y % 400 = 0

DaysInMonth(y, m) ==
    IF m = 2 THEN (IF IsLeap(y) THEN 29 ELSE 28)
    ELSE IF m \in {4, 6, 9, 11} THEN 30
    ELSE 31

\* Whether pd.Timestamp(year=y, month=m, day=d) exists (it raises ValueError
\* otherwise); 1678..2261 are the years a Timestamp can hold whole.
ValidDate(y, m, d) ==
    y \in 1678..2261 /\ m \in 1..12 /\ d >= 1 /\ d <= DaysInMonth(y, m)

\* A text of the form YYYY-MM-DD, the one text form of the model that the
\* generic date parser of pd.to_datetime accepts.
iso_date_of(s) ==
    LET y == DigitsValue(SubSeq(s, 1, 4))
        m == DigitsValue(SubSeq(s, 6, 7))
        d == DigitsValue(SubSeq(s, 9, 10))
        good == /\ Len(s) = 10
                /\ s[5] = "-" /\ s[8] = "-"
                /\ \A i \in {1, 2, 3, 4, 6, 7, 9, 10} : IsDigit(s[i])
    IN IF good /\ ValidDate(y, m, d) THEN [ok |-> TRUE, ts |-> Timestamp(y, m, d, 0)]
       ELSE [ok |-> FALSE, ts |-> NaT]

\* pd.to_datetime(value, errors="raise") on one cell; ok is FALSE where it
\* raises.  A date is kept, a number counts nanoseconds from 1970-01-01, a text
\* goes to the generic parser.
to_datetime_raise(c) ==
    IF c.t = "ts" THEN [ok |-> TRUE, ts |-> c.ts]
    ELSE IF c.t = "num" THEN [ok |-> TRUE, ts |-> Timestamp(1970, 1, 1, 0)]
    ELSE IF c.t = "str" THEN iso_date_of(strip(c.s))
    ELSE [ok |-> TRUE, ts |-> NaT]

\* pd.to_datetime(value, errors="coerce"): NaT where the other raises.
to_datetime_coerce(c) == to_datetime_raise(c).ts

\* _parse_tanggal_indonesia of the upload script.  exc is TRUE where the call
\* raises: pd.Timestamp(year, month, day) of line 170 is outside every try.
parse_tanggal_indonesia(c) ==
    LET first == to_datetime_raise(c)
        s     == strip(astype_str(c))
        parts == split(s)
        month == id_month_get(lower(strip(parts[2])))
        day   == int_of(parts[1])
        year  == int_of(parts[3])
    IN IF isna(c) THEN [ts |-> NaT, exc |-> FALSE]
       ELSE IF first.ok THEN [ts |-> first.ts, exc |-> FALSE]
       ELSE IF s = <<>> THEN [ts |-> NaT, exc |-> FALSE]
       ELSE IF Len(parts) = 3
            THEN IF ~day.ok \/ ~year.ok THEN [ts |-> NaT, exc |-> FALSE]
                 ELSE IF month = 0 THEN [ts |-> NaT, exc |-> FALSE]
                 ELSE IF ValidDate(year.v, month, day.v)
                      THEN [ts |-> Timestamp(year.v, month, day.v, 0), exc |-> FALSE]
                      ELSE [ts |-> NaT, exc |-> TRUE]
       ELSE [ts |-> NaT, exc |-> FALSE]

\* _parse_tanggal_indonesia of kurs_data.py: the three-token branch formats
\* "Y-MM-DD" inside a try (a month of None raises TypeError there) and parses it
\* with errors="coerce"; whatever fails ends in pd.to_datetime(s, "coerce").
parse_tanggal_indonesia_kurs(c) ==
    LET first == to_datetime_raise(c)
        s     == strip(astype_str(c))
        parts == split(s)
        month == id_month_get(lower(strip(parts[2])))
        day   == int_of(parts[1])
        year  == int_of(parts[3])
    IN IF isna(c) THEN NaT
       ELSE IF first.ok THEN first.ts
       ELSE IF s = <<>> THEN NaT
       ELSE IF Len(parts) = 3 /\ day.ok /\ year.ok /\ month # 0
            THEN IF ValidDate(year.v, month, day.v)
                 THEN Timestamp(year.v, month, day.v, 0)
                 ELSE NaT
       ELSE NaT

\* A percent parser that leaves the decimal comma in place.
parse_rate_percent_keep_comma(c) ==
    LET s == strip(astype_str(c))
        cleaned == RemoveChars(s, {"%", " "})
    IN IF isna(c) THEN NaN
       ELSE IF s = <<>> THEN NaN
       ELSE IF float_of(cleaned).ok THEN Num(float_of(cleaned).v)
       ELSE NaN

\* _parse_rate_percent: None (here NaN) for an empty cell, an empty text or a
\* text that float() rejects after "%", blanks and the comma are dealt with.
parse_rate_percent(c) ==
    LET s == strip(astype_str(c))
        cleaned == CommaToDot(RemoveChars(s, {"%", " "}))
    IN IF isna(c) THEN NaN
       ELSE IF s = <<>> THEN NaN
       ELSE IF float_of(cleaned).ok THEN Num(float_of(cleaned).v)
       ELSE NaN

\* a < b for Timestamps.
TsLess(a, b) ==
    \/ a.y < b.y
    \/ a.y = b.y /\ a.m < b.m
    \/ a.y = b.y /\ a.m = b.m /\ a.d < b.d
    \/ a.y = b.y /\ a.m = b.m /\ a.d = b.d /\ a.h < b.h

\* Timestamp.date().isoformat(): the calendar date, the hour is dropped.
date_isoformat(x) == <<x.y, x.m, x.d>>

\* ----------------------------------------------------- generic helpers

RECURSIVE SeqsUpTo(_, _)
SeqsUpTo(S, n) ==
    IF n = 0 THEN {<<>>}
    ELSE LET shorter == SeqsUpTo(S, n - 1)
         IN shorter \cup {Append(q, x) : q \in {r \in shorter : Len(r) = n - 1}, x \in S}

RECURSIVE Concat(_)
Concat(ss) == IF ss = <<>> THEN <<>> ELSE Head(ss) \o Concat(Tail(ss))

\* ------------------------------------------------- daily-series loaders

\* A data row of a sheet with a leading row-number column.
DailyRow(no, tanggal, rate) == [NO |-> no, Tanggal |-> tanggal, Rate |-> rate]

\* A workbook of a daily series: exists (Path.exists), readable (pd.read_excel
\* does not raise), ncols (columns of the sheet) and the data rows below the
\* header row, of which the model keeps the first three cells.
Sheet(e, r, n, rows) == [exists |-> e, readable |-> r, ncols |-> n, rows |-> rows]

NoSheet == Sheet(FALSE, FALSE, 0, <<>>)

\* A row of a parsed daily table: ix is the index label the row got from
\* read_excel (its position in the sheet), which a frame carries through
\* filter, sort and dedup; Tanggal is a Timestamp, Rate a number cell.
TableRow(ix, tanggal, rate) == [ix |-> ix, Tanggal |-> tanggal, Rate |-> rate]

with_index(rows) ==
    [i \in 1..Len(rows) |->
        [ix |-> i, NO |-> rows[i].NO, Tanggal |-> rows[i].Tanggal, Rate |-> rows[i].Rate]]

\* The mask of the header filter: df["NO"].astype(str).str.strip().str.lower() != "no".
not_header_row(r) == lower(strip(astype_str(r.NO))) # <<"n", "o">>

\* A header filter that forgets str.strip().
drop_header_rows_nostrip(df) == SelectSeq(df, LAMBDA r : lower(astype_str(r.NO)) # <<"n", "o">>)

\* df = df[mask].copy()
drop_header_rows(df) == SelectSeq(df, not_header_row)

dropna_daily(r) == r.Tanggal # NaT /\ ~isna(r.Rate)

\* sort_values(["Tanggal"]): on a single column pandas sorts with
\* kind="quicksort" (numpy's introsort), which promises no order among rows
\* with equal keys.  The sort is a fixed algorithm, so the same frame is always
\* ordered the same way, but which way is not specified: rank, fixed for a
\* behaviour, says in which order it leaves the rows (by index label) of one
\* key.  The sheets of the model are shorter than the run length below which
\* introsort insertion-sorts; rank keeps the contract, not that threshold.
\* TieRanks holds the two extreme outcomes, file order kept and file order
\* reversed, which between them give every order of two rows with one key.
TieRanks(n) == {[i \in 1..n |-> i], [i \in 1..n |-> n + 1 - i]}

sort_values_tanggal(s, rank) ==
    LET n == Len(s)
        before(a, b) == \/ TsLess(a.Tanggal, b.Tanggal)
                        \/ a.Tanggal = b.Tanggal /\ rank[a.ix] < rank[b.ix]
        pos(i) == Cardinality({j \in 1..n : before(s[j], s[i])}) + 1
    IN [p \in 1..n |-> s[CHOOSE i \in 1..n : pos(i) = p]]

\* A dedup that keeps every row.
drop_duplicates_tanggal_none(s) == s

\* drop_duplicates(subset=["Tanggal"], keep="last"): the key is the Timestamp.
drop_duplicates_tanggal(s) ==
    LET keep == {i \in 1..Len(s) : \A j \in (i + 1)..Len(s) : s[i].Tanggal # s[j].Tanggal}
        nth(p) == CHOOSE i \in keep : Cardinality({j \in keep : j <= i}) = p
    IN [p \in 1..Cardinality(keep) |-> s[nth(p)]]

LoadResult(flt, df, exc) == [flt |-> flt, df |-> df, exc |-> exc]

\* _load_bi_excel.
load_bi_excel(sh, rank) ==
    LET flt    == drop_header_rows(with_index(sh.rows))
        dates  == [i \in 1..Len(flt) |-> parse_tanggal_indonesia(flt[i].Tanggal)]
        parsed == [i \in 1..Len(flt) |->
                     TableRow(flt[i].ix, dates[i].ts, to_numeric(parse_rate_percent(flt[i].Rate)))]
        valid  == SelectSeq(parsed, dropna_daily)
    IN IF ~sh.exists THEN LoadResult(<<>>, <<>>, FALSE)
       ELSE IF ~sh.readable THEN LoadResult(<<>>, <<>>, TRUE)
       ELSE IF sh.ncols < 3 THEN LoadResult(<<>>, <<>>, FALSE)
       ELSE IF \E i \in 1..Len(flt) : dates[i].exc THEN LoadResult(flt, <<>>, TRUE)
       ELSE LoadResult(flt, drop_duplicates_tanggal(sort_values_tanggal(valid, rank)), FALSE)

\* _load_jisdor_excel.
load_jisdor_excel(sh, rank) ==
    LET flt    == drop_header_rows(with_index(sh.rows))
        parsed == [i \in 1..Len(flt) |->
                     TableRow(flt[i].ix, to_datetime_coerce(flt[i].Tanggal), to_numeric(flt[i].Rate))]
        valid  == SelectSeq(parsed, dropna_daily)
    IN IF ~sh.exists THEN LoadResult(<<>>, <<>>, FALSE)
       ELSE IF ~sh.readable THEN LoadResult(<<>>, <<>>, TRUE)
       ELSE IF sh.rows = <<>> THEN LoadResult(<<>>, <<>>, FALSE)
       ELSE IF sh.ncols < 3 THEN LoadResult(<<>>, <<>>, FALSE)
       ELSE LoadResult(flt, drop_duplicates_tanggal(sort_values_tanggal(valid, rank)), FALSE)

\* baca_data_kurs: the backend table when the fetch delivers a non-empty one
\* (backend is <<>> when there is no client, the fetch fails or it is empty),
\* else the workbook.  Everything is inside one try/except: a missing or
\* unreadable file, and the three column names assigned to a sheet that has
\* more than three columns, end in the empty table.  No sort, no dedup.
baca_data_kurs(backend, sh) ==
    LET flt    == drop_header_rows(with_index(sh.rows))
        parsed == [i \in 1..Len(flt) |->
                     TableRow(flt[i].ix, parse_tanggal_indonesia_kurs(flt[i].Tanggal),
                              to_numeric(parse_rate_percent(flt[i].Rate)))]
    IN IF backend # <<>> THEN LoadResult(<<>>, backend, FALSE)
       ELSE IF ~sh.exists \/ ~sh.readable THEN LoadResult(<<>>, <<>>, FALSE)
       ELSE IF sh.ncols # 3 THEN LoadResult(<<>>, <<>>, FALSE)
       ELSE LoadResult(flt, SelectSeq(parsed, dropna_daily), FALSE)

NoFiltered == [bi |-> <<>>, jisdor |-> <<>>, kurs |-> <<>>]

\* The loader variables of a specification that runs no loader.
LoaderIdle ==
    /\ bi_file = NoSheet
    /\ jisdor_file = NoSheet
    /\ kurs_file = NoSheet
    /\ backend_kurs = <<>>
    /\ tie_rank = [i \in 1..MaxDailyRows |-> i]
    /\ df_bi = <<>>
    /\ df_jisdor = <<>>
    /\ df_kurs = <<>>
    /\ filtered = NoFiltered
    /\ loaded = {}

\* ------------------------------------------- inflation combiner (utils.py)

\* INFLASI_STD_COLUMNS: a frame is a sequence of rows with these four cells
\* (Inflasi stands for the column 'Inflasi (%)').
InflasiRow(p, t, b, i) == [Provinsi |-> p, Tahun |-> t, Bulan |-> b, Inflasi |-> i]

empty_inflasi_df == <<>>

\* A workbook on disk: exists (os.path.exists), readable (pd.read_excel does not
\* raise), std_cols (its header row carries the four standard column names) and
\* its data rows.
InflasiFile(e, r, c, rows) == [exists |-> e, readable |-> r, std_cols |-> c, rows |-> rows]

\* pd.read_excel(path): the frame, or an exception (exc) for a file that is
\* missing or cannot be read.
read_excel(f) ==
    IF f.exists /\ f.readable THEN [df |-> f.rows, exc |-> FALSE]
    ELSE [df |-> <<>>, exc |-> TRUE]

\* normalisasi_data_inflasi: picks the four standard columns, or the empty frame
\* when one of them is not found; its own try/except lets nothing out.
normalisasi_data_inflasi(f, df) == IF f.std_cols THEN df ELSE empty_inflasi_df

\* _parse_inflasi_excel_file for a name that is neither "data inflasi.xlsx" nor
\* contains "inflasi tahunan" (the combiner's Inflasi_Tahunan_2024.xlsx and
\* Inflasi_Tahunan_2025.xlsx are spelt with underscores): the fallback path,
\* whose try/except turns every exception into the empty frame.
parse_inflasi_excel_file(f) ==
    LET r == read_excel(f)
    IN IF r.exc THEN [df |-> empty_inflasi_df, exc |-> FALSE]
       ELSE IF r.df = <<>> THEN [df |-> empty_inflasi_df, exc |-> FALSE]
       ELSE [df |-> normalisasi_data_inflasi(f, r.df), exc |-> FALSE]

\* Lines 281-284: the type coercion of the four columns.
coerce_inflasi(r) ==
    [Provinsi |-> Txt(astype_str(r.Provinsi)),
     Tahun    |-> to_numeric(r.Tahun),
     Bulan    |-> to_numeric(r.Bulan),
     Inflasi  |-> to_numeric(r.Inflasi)]

dropna_inflasi(r) ==
    ~isna(r.Provinsi) /\ ~isna(r.Tahun) /\ ~isna(r.Bulan) /\ ~isna(r.Inflasi)

\* Lines 286-287: Tahun and Bulan cast to int.
astype_int_inflasi(r) == [r EXCEPT !.Tahun = astype_int(r.Tahun), !.Bulan = astype_int(r.Bulan)]

\* Order of sort_values(["Provinsi", "Tahun", "Bulan"]).
InflasiKeyLess(a, b) ==
    \/ StrLess(a.Provinsi.s, b.Provinsi.s)
    \/ /\ a.Provinsi.s = b.Provinsi.s
       /\ \/ a.Tahun.n < b.Tahun.n
          \/ a.Tahun.n = b.Tahun.n /\ a.Bulan.n < b.Bulan.n

InflasiSameKey(a, b) ==
    a.Provinsi.s = b.Provinsi.s /\ a.Tahun.n = b.Tahun.n /\ a.Bulan.n = b.Bulan.n

\* sort_values(["Provinsi", "Tahun", "Bulan"]): on several columns pandas sorts
\* with a lexsort, which keeps rows with equal keys in their relative order.
\* Row i goes after every row with a smaller key and every earlier row with an
\* equal key.
sort_values_inflasi(s) ==
    LET n == Len(s)
        pos(i) == Cardinality({j \in 1..n : InflasiKeyLess(s[j], s[i])})
                  + Cardinality({j \in 1..i : InflasiSameKey(s[j], s[i])})
    IN [p \in 1..n |-> s[CHOOSE i \in 1..n : pos(i) = p]]

\* A dedup step that drops nothing.
drop_duplicates_none(s) == s

\* drop_duplicates(subset=["Provinsi", "Tahun", "Bulan"], keep="last").
drop_duplicates_inflasi(s) ==
    LET keep == {i \in 1..Len(s) : \A j \in (i + 1)..Len(s) : ~InflasiSameKey(s[i], s[j])}
        nth(p) == CHOOSE i \in keep : Cardinality({j \in keep : j <= i}) = p
    IN [p \in 1..Cardinality(keep) |-> s[nth(p)]]

\* Lines 278-298: concat, coercion, dropna, sort, keep-last dedup.
combine_frames(frames) ==
    LET concat  == Concat(frames)
        coerced == [i \in 1..Len(concat) |-> coerce_inflasi(concat[i])]
        valid   == SelectSeq(coerced, dropna_inflasi)
        typed   == [i \in 1..Len(valid) |-> astype_int_inflasi(valid[i])]
    IN drop_duplicates_inflasi(sort_values_inflasi(typed))

\* A combiner that gives up at the first missing file.
baca_data_inflasi_excel_abort(fs) ==
    IF \E i \in 1..Len(fs) : ~fs[i].exists
    THEN [df |-> empty_inflasi_df, exc |-> FALSE]
    ELSE [df |-> combine_frames([i \in 1..Len(fs) |-> parse_inflasi_excel_file(fs[i]).df]),
          exc |-> FALSE]

\* baca_data_inflasi_excel over its two file paths: a missing file is skipped,
\* an empty parse result is not appended, no frame at all gives the empty frame.
\* It has no try/except of its own: an exception of a parse would leave it.
baca_data_inflasi_excel(fs) ==
    LET present == SelectSeq(fs, LAMBDA f : f.exists)
        parsed  == [i \in 1..Len(present) |-> parse_inflasi_excel_file(present[i])]
        frames  == [i \in 1..Len(parsed) |-> parsed[i].df]
        nonempty == SelectSeq(frames, LAMBDA d : d # <<>>)
        exc     == \E i \in 1..Len(parsed) : parsed[i].exc
    IN IF exc THEN [df |-> empty_inflasi_df, exc |-> TRUE]
       ELSE IF nonempty = <<>> THEN [df |-> empty_inflasi_df, exc |-> FALSE]
       ELSE [df |-> combine_frames(nonempty), exc |-> FALSE]

\* ------------------------------ uploader (upload_excel_to_supabase.py)

\* _load_inflasi_excel, given the result r of its call of
\* utils.baca_data_inflasi_excel(): the combiner's table, put once more through
\* the four coercions, dropna, the int casts, the sort and the keep-last dedup.
load_inflasi_excel(r) ==
    LET coerced == [k \in 1..Len(r.df) |-> coerce_inflasi(r.df[k])]
        valid   == SelectSeq(coerced, dropna_inflasi)
        typed   == [k \in 1..Len(valid) |-> astype_int_inflasi(valid[k])]
    IN IF r.exc THEN [df |-> empty_inflasi_df, exc |-> TRUE]
       ELSE IF r.df = <<>> THEN [df |-> empty_inflasi_df, exc |-> FALSE]
       ELSE [df |-> drop_duplicates_inflasi(sort_values_inflasi(typed)), exc |-> FALSE]

\* _df_to_inflasi_rows: tahun and bulan as int, inflasi as float (hundredths).
df_to_inflasi_rows(df) ==
    [k \in 1..Len(df) |->
        [provinsi |-> astype_str(df[k].Provinsi),
         tahun    |-> df[k].Tahun.n \div 100,
         bulan    |-> df[k].Bulan.n \div 100,
         inflasi  |-> df[k].Inflasi.n]]

\* _df_to_bi_rows: tanggal is pd.Timestamp(...).date().isoformat(), the calendar
\* date without the time of day.
df_to_bi_rows(df) ==
    [k \in 1..Len(df) |-> [tanggal |-> date_isoformat(df[k].Tanggal), bi_7day_rr |-> df[k].Rate.n]]

\* _df_to_jisdor_rows.
df_to_jisdor_rows(df) ==
    [k \in 1..Len(df) |-> [tanggal |-> date_isoformat(df[k].Tanggal), kurs |-> df[k].Rate.n]]

\* _get_table_names with no override in the environment, in the order in which
\* main() uploads them.
Tables == <<"inflasi", "bi_7day_rr", "kurs_jisdor">>

\* The on_conflict argument main() passes for each table, as column names.
OnConflict ==
    [inflasi     |-> <<"provinsi", "tahun", "bulan">>,
     bi_7day_rr  |-> <<"tanggal">>,
     kurs_jisdor |-> <<"tanggal">>]

\* batch_size=max(1, int(args.batch_size))
batch_size_of(arg) == IF arg < 1 THEN 1 ELSE arg

\* A batch that loses its last row.
batch_at_short(rows, i, size) == SubSeq(rows, i + 1, i + size - 1)

\* batch = rows[i : i + batch_size]
batch_at(rows, i, size) ==
    SubSeq(rows, i + 1, IF i + size < Len(rows) THEN i + size ELSE Len(rows))

\* The values of the conflict columns of a payload row.
conflict_key(r, on_conflict) == [k \in 1..Len(on_conflict) |-> r[on_conflict[k]]]

\* A write that inserts without looking for a conflict.
upsert_insert_only(store, batch, on_conflict) == store \cup {batch[k] : k \in 1..Len(batch)}

\* A write that, on a conflict, adds the incoming metric to the stored one.
upsert_accumulate(store, batch, on_conflict) ==
    LET key(r)   == conflict_key(r, on_conflict)
        metric(r) == CHOOSE f \in DOMAIN r : \A k \in 1..Len(on_conflict) : on_conflict[k] # f
        last     == {k \in 1..Len(batch) : \A j \in (k + 1)..Len(batch) : key(batch[j]) # key(batch[k])}
        replaced == {x \in store : \E k \in 1..Len(batch) : key(batch[k]) = key(x)}
        merged(r) == IF \E x \in replaced : key(x) = key(r)
                     THEN [r EXCEPT ![metric(r)] = @ + (CHOOSE x \in replaced : key(x) = key(r))[metric(r)]]
                     ELSE r
    IN (store \ replaced) \cup {merged(batch[k]) : k \in last}

\* client.table(table).upsert(batch, on_conflict=...).execute() on a table held
\* as the set of its rows: each row of the batch, in order, replaces the stored
\* row with its conflict key or is inserted, so that of the rows of one key the
\* last one of the batch stays.  (A backend that rejects a batch is the failing
\* call of UpsertBatchFails.)
upsert(store, batch, on_conflict) ==
    LET key(r)   == conflict_key(r, on_conflict)
        last     == {k \in 1..Len(batch) : \A j \in (k + 1)..Len(batch) : key(batch[j]) # key(batch[k])}
        replaced == {x \in store : \E k \in 1..Len(batch) : key(batch[k]) = key(x)}
    IN (store \ replaced) \cup {batch[k] : k \in last}

\* Where main() stands: pc, the running _upsert_in_batches call (table, 0 for
\* none) and its loop variable.
Position(p, t, i) == [pc |-> p, table |-> t, i |-> i]

\* The next request after the batch at offset i of call t, given the lengths of
\* the three payloads: the next batch of the same call, else the first batch of
\* the next call that has rows ("0 rows (skip)" otherwise), else Done.
next_position(lens, t, i, size) ==
    LET later == {u \in (t + 1)..3 : lens[u] > 0}
    IN IF t >= 1 /\ i + size < lens[t] THEN Position("upsert", t, i + size)
       ELSE IF later = {} THEN Position("done", 0, 0)
       ELSE Position("upsert", CHOOSE u \in later : \A v \in later : u <= v, 0)

\* An exception handler that reports the failed batch and carries on.
on_upsert_exception_continue(next) == next

\* The handler of lines 323-341: SystemExit or re-raise, whatever the message.
on_upsert_exception(next) == Position("failed", 0, 0)

\* A loop that does not look at dry_run.
upsert_in_batches_ignore_dry(rows, size, dry) ==
    [k \in 1..((Len(rows) + size - 1) \div size) |-> batch_at(rows, (k - 1) * size, size)]

\* The batches _upsert_in_batches(client, table, rows, on_conflict, batch_size,
\* dry_run) sends when no request fails: none for no rows (line 309), none
\* with dry_run (line 315), else one per i of range(0, len(rows), batch_size).
upsert_in_batches(rows, size, dry) ==
    IF rows = <<>> THEN <<>>
    ELSE IF dry THEN <<>>
    ELSE [k \in 1..((Len(rows) + size - 1) \div size) |-> batch_at(rows, (k - 1) * size, size)]

EmptySink == [inflasi |-> {}, bi_7day_rr |-> {}, kurs_jisdor |-> {}]

\* The uploader variables of a specification that runs no upload.
UploaderIdle ==
    /\ dry_run = FALSE
    /\ env_ok = FALSE
    /\ args_batch_size = 1
    /\ df_inflasi = <<>>
    /\ inflasi_rows = <<>>
    /\ bi_rows = <<>>
    /\ jisdor_rows = <<>>
    /\ table = 0
    /\ i_batch = 0
    /\ calls = <<>>
    /\ sink = EmptySink
    /\ sink_start = EmptySink
    /\ run = 1
    /\ sink_run1 = EmptySink

\* ------------------------------------------------ single parser calls

\* What a parser call gave: fn names the function, exc is TRUE when the call
\* raised, ts / num hold the returned date / number, kind and detail the
\* exception that leaves the except block of _upsert_in_batches.
Out(fn, exc, ts, num, kind, detail) ==
    [fn |-> fn, exc |-> exc, ts |-> ts, num |-> num, kind |-> kind, detail |-> detail]

NoOut == Out("", FALSE, NaT, NaN, "", <<>>)

\* The parser variables of a specification that calls no parser on its own.
ParserIdle ==
    /\ value = NaN
    /\ returned = NoOut

\* The tables of a seed generator that has not been started.
NoSeedTables == [inflasi |-> <<>>, bi_7day_rr |-> <<>>, kurs_jisdor |-> <<>>]

SeedIdle ==
    /\ seed_df = NoSeedTables
    /\ out_file = <<>>

\* None, and a key that st.session_state does not hold.
NoneValue == ""

\* st.session_state of a new session, with the four keys main() works on.
FreshSession ==
    [app_page |-> NoneValue, nav_group |-> NoneValue, app_page_pending |-> NoneValue,
     url_state_loaded_app |-> FALSE]

\* A URL without the query parameter "state".
NoToken == [given |-> FALSE, valid |-> FALSE, app_page |-> NoneValue]

AppIdle ==
    /\ session_state = FreshSession
    /\ query_params = NoToken
    /\ halaman = NoneValue
    /\ kategori_index = NoneValue
    /\ keyed_identity = TRUE
    /\ passes = 0
    /\ last_request = NoneValue

\* The variables outside the ingestion pipeline, for its specifications.
OthersIdle == ParserIdle /\ SeedIdle /\ AppIdle

\* ---- inputs of the combiner specification

Aceh == <<"A", "c", "e", "h">>

Bali == <<"B", "a", "l", "i">>

\* Data rows a workbook with the standard header can hold: two rates for one
\* key, the same key with its year typed as text, a month outside 1..12, an
\* empty month, a rate that is no number, and a second region.
RawInflasiRows ==
    { InflasiRow(Txt(Aceh), Whole(2025), Whole(1), Num(300)),
      InflasiRow(Txt(Aceh), Whole(2025), Whole(1), Num(350)),
      InflasiRow(Txt(Aceh), Txt(<<"2", "0", "2", "5">>), Whole(1), Txt(<<"4", ".", "7", "5">>)),
      InflasiRow(Txt(Bali), Whole(2025), Whole(13), Num(300)),
      InflasiRow(Txt(Aceh), Whole(2024), NaN, Num(300)),
      InflasiRow(Txt(Aceh), Whole(2024), Whole(12), Txt(<<"x">>)) }

\* The workbooks of up to n data rows: missing, unreadable, without the standard
\* header, and with it.
InflasiFiles(n) ==
    { InflasiFile(FALSE, FALSE, FALSE, <<>>),
      InflasiFile(TRUE, FALSE, FALSE, <<>>) }
    \cup { InflasiFile(TRUE, TRUE, FALSE, <<r>>) : r \in RawInflasiRows }
    \cup { InflasiFile(TRUE, TRUE, TRUE, rows) : rows \in SeqsUpTo(RawInflasiRows, n) }

\* The combiner variables of a specification that runs no combiner.
CombinerIdle ==
    /\ files = [i \in 1..2 |-> InflasiFile(FALSE, FALSE, FALSE, <<>>)]
    /\ df_all = <<>>
    /\ df_again = <<>>

\* ---- the combiner specification

InitCombine ==
    /\ pc = "start"
    /\ files \in {<<f, g>> : f \in InflasiFiles(MaxInflasiRows), g \in InflasiFiles(MaxInflasiRows - 1)}
    /\ df_all = <<>>
    /\ df_again = <<>>
    /\ raised = FALSE
    /\ LoaderIdle
    /\ UploaderIdle
    /\ OthersIdle

\* One call of baca_data_inflasi_excel().
BacaDataInflasiExcel ==
    /\ pc = "start"
    /\ LET r == baca_data_inflasi_excel(files)
       IN /\ df_all' = r.df
          /\ raised' = r.exc
          /\ pc' = IF r.exc THEN "raised" ELSE "combined"
    /\ UNCHANGED <<files, df_again, loaderVars, uploadVars, otherVars>>

\* The canonical table combined with itself: the same lines 278-298 applied to
\* the two frames df_all, df_all.
CombineWithItself ==
    /\ pc = "combined"
    /\ df_again' = combine_frames(<<df_all, df_all>>)
    /\ pc' = "recombined"
    /\ UNCHANGED <<files, df_all, raised, loaderVars, uploadVars, otherVars>>

NextCombine == BacaDataInflasiExcel \/ CombineWithItself

SpecCombine == InitCombine /\ [][NextCombine]_vars

\* ---- claims checked under SpecCombine

\* The rows a file contributes: those of a readable workbook with the standard
\* header, coerced, that have no missing field.
UsableRows(f) ==
    IF f.exists /\ f.readable /\ f.std_cols
    THEN LET valid == SelectSeq([i \in 1..Len(f.rows) |-> coerce_inflasi(f.rows[i])],
                                dropna_inflasi)
         IN [i \in 1..Len(valid) |-> astype_int_inflasi(valid[i])]
    ELSE <<>>

\* out holds, sorted by key, one row per key of rows: the last row of that key.
IsKeepLastOf(out, rows) ==
    /\ \A i \in 1..Len(out) :
          \E k \in 1..Len(rows) :
              /\ out[i] = rows[k]
              /\ \A j \in (k + 1)..Len(rows) : ~InflasiSameKey(rows[j], rows[k])
    /\ \A k \in 1..Len(rows) : \E i \in 1..Len(out) : InflasiSameKey(out[i], rows[k])
    /\ \A i \in 1..(Len(out) - 1) : InflasiKeyLess(out[i], out[i + 1])

ExistingFiles == {i \in 1..2 : files[i].exists}

\* C4: combining a canonical table produced by the combiner with itself yields
\* exactly that table: same rows, same values, same order.
C4_CombineIdempotent == pc = "recombined" => df_again = df_all

C4_Witness ==
    /\ pc = "recombined"
    /\ Len(df_all) >= 2
    /\ Len(files[1].rows) + Len(files[2].rows) > Len(df_all)

\* C6: every record that survives the combiner has its month in 1..12 and a
\* rate that is not missing.
C6_MonthAndRateValid ==
    \A i \in 1..Len(df_all) : df_all[i].Bulan.n \in {100 * b : b \in 1..12} /\ ~isna(df_all[i].Inflasi)

D17 == Timestamp(2025, 12, 17, 0)

D17noon == Timestamp(2025, 12, 17, 12)

D18 == Timestamp(2025, 12, 18, 0)

Text17Desember2025 ==
    <<"1", "7", " ", "D", "e", "s", "e", "m", "b", "e", "r", " ", "2", "0", "2", "5">>

\* Data rows of a daily sheet: two rates for one timestamp, a third row of the
\* same day at noon, rows whose first cell is the header token in three
\* spellings (with values that would otherwise be valid), a first cell that
\* only starts like the token, a date written in Indonesian, and an empty row.
RawDailyRows ==
    { DailyRow(Whole(1), DateCell(D17), Txt(<<"4", ",", "7", "5", " ", "%">>)),
      DailyRow(Whole(2), DateCell(D17), Num(500)),
      DailyRow(Whole(3), DateCell(D17noon), Num(525)),
      DailyRow(Txt(<<"N", "O">>), DateCell(D18), Num(600)),
      DailyRow(Txt(<<" ", "N", "o", " ">>), DateCell(D17), Num(610)),
      DailyRow(Txt(<<"N", "O", "M">>), Txt(Text17Desember2025), Num(450)),
      DailyRow(NaN, NaN, NaN) }

DailySheets ==
    { NoSheet, Sheet(TRUE, FALSE, 0, <<>>) }
    \cup { Sheet(TRUE, TRUE, 2, <<r>>) : r \in RawDailyRows }
    \cup { Sheet(TRUE, TRUE, n, rows) : n \in {3, 4}, rows \in SeqsUpTo(RawDailyRows, MaxDailyRows) }

\* ---- the loader specification: each loader is applied once to a workbook

InitLoad ==
    /\ pc = "start"
    /\ raised = FALSE
    /\ CombinerIdle
    /\ UploaderIdle
    /\ OthersIdle
    /\ bi_file \in DailySheets
    /\ jisdor_file = bi_file
    /\ kurs_file = bi_file
    /\ backend_kurs \in {<<>>, <<TableRow(0, D18, Num(1650000))>>}
    /\ tie_rank \in TieRanks(MaxDailyRows)
    /\ df_bi = <<>>
    /\ df_jisdor = <<>>
    /\ df_kurs = <<>>
    /\ filtered = NoFiltered
    /\ loaded = {}

\* One call of _load_bi_excel().
LoadBiExcel ==
    /\ "bi" \notin loaded
    /\ LET r == load_bi_excel(bi_file, tie_rank)
       IN /\ df_bi' = r.df
          /\ filtered' = [filtered EXCEPT !.bi = r.flt]
          /\ raised' = (raised \/ r.exc)
    /\ loaded' = loaded \cup {"bi"}
    /\ UNCHANGED <<pc, combinerVars, uploadVars, otherVars, bi_file, jisdor_file, kurs_file, backend_kurs, tie_rank,
                   df_jisdor, df_kurs>>

\* One call of _load_jisdor_excel().
LoadJisdorExcel ==
    /\ "jisdor" \notin loaded
    /\ LET r == load_jisdor_excel(jisdor_file, tie_rank)
       IN /\ df_jisdor' = r.df
          /\ filtered' = [filtered EXCEPT !.jisdor = r.flt]
          /\ raised' = (raised \/ r.exc)
    /\ loaded' = loaded \cup {"jisdor"}
    /\ UNCHANGED <<pc, combinerVars, uploadVars, otherVars, bi_file, jisdor_file, kurs_file, backend_kurs, tie_rank,
                   df_bi, df_kurs>>

\* One call of baca_data_kurs().
BacaDataKurs ==
    /\ "kurs" \notin loaded
    /\ LET r == baca_data_kurs(backend_kurs, kurs_file)
       IN /\ df_kurs' = r.df
          /\ filtered' = [filtered EXCEPT !.kurs = r.flt]
    /\ loaded' = loaded \cup {"kurs"}
    /\ UNCHANGED <<pc, raised, combinerVars, uploadVars, otherVars, bi_file, jisdor_file, kurs_file, backend_kurs, tie_rank,
                   df_bi, df_jisdor>>

NextLoad == LoadBiExcel \/ LoadJisdorExcel \/ BacaDataKurs

SpecLoad == InitLoad /\ [][NextLoad]_vars

\* ---- claims checked under SpecLoad

\* A first cell that, trimmed and compared without case, is the header token
\* "no": a text whose only non-blank characters are an n and an o, adjacent.
IsHeaderToken(c) ==
    /\ c.t = "str"
    /\ \E k \in 1..(Len(c.s) - 1) :
          /\ c.s[k] \in {"n", "N"}
          /\ c.s[k + 1] \in {"o", "O"}
          /\ \A i \in 1..Len(c.s) : i \notin {k, k + 1} => c.s[i] = " "

\* The sheet rows, with their index, whose first cell is not the header token.
NonHeaderRows(sh) == SelectSeq(with_index(sh.rows), LAMBDA r : ~IsHeaderToken(r.NO))

\* Whether a loader gets as far as its header filter on its workbook.
FilterRuns(name) ==
    CASE name = "bi" -> bi_file.exists /\ bi_file.readable /\ bi_file.ncols >= 3
      [] name = "jisdor" -> /\ jisdor_file.exists /\ jisdor_file.readable
                            /\ jisdor_file.rows # <<>> /\ jisdor_file.ncols >= 3
      [] name = "kurs" -> /\ backend_kurs = <<>> /\ kurs_file.exists /\ kurs_file.readable
                          /\ kurs_file.ncols = 3

SheetOf(name) ==
    CASE name = "bi" -> bi_file [] name = "jisdor" -> jisdor_file [] name = "kurs" -> kurs_file

TableOf(name) ==
    CASE name = "bi" -> df_bi [] name = "jisdor" -> df_jisdor [] name = "kurs" -> df_kurs

\* C8: in the loaders of sheets with a leading row-number column, the header
\* filter removes every row whose first cell is the header token, wherever it
\* stands, and no other row; no such row is in the loader's output.
C8_HeaderDefence ==
    \A name \in loaded :
        FilterRuns(name) =>
            /\ filtered[name] = NonHeaderRows(SheetOf(name))
            /\ \A i \in 1..Len(TableOf(name)) :
                  ~IsHeaderToken(SheetOf(name).rows[TableOf(name)[i].ix].NO)

C8_Witness ==
    /\ loaded = {"bi", "jisdor", "kurs"}
    /\ backend_kurs = <<>>
    /\ bi_file.ncols = 3
    /\ Len(bi_file.rows) = 3
    /\ IsHeaderToken(bi_file.rows[2].NO)
    /\ bi_file.rows[2].NO.s # <<"n", "o">>
    /\ ~IsHeaderToken(bi_file.rows[1].NO)
    /\ ~IsHeaderToken(bi_file.rows[3].NO)
    /\ Len(df_bi) = 2 /\ Len(df_jisdor) = 2 /\ Len(df_kurs) = 2

\* The rows of a loader's filtered frame that survive parsing, as the loader
\* parses them.
ParsedBi ==
    SelectSeq([i \in 1..Len(filtered.bi) |->
                  TableRow(filtered.bi[i].ix, parse_tanggal_indonesia(filtered.bi[i].Tanggal).ts,
                           to_numeric(parse_rate_percent(filtered.bi[i].Rate)))],
              dropna_daily)

ParsedJisdor ==
    SelectSeq([i \in 1..Len(filtered.jisdor) |->
                  TableRow(filtered.jisdor[i].ix, to_datetime_coerce(filtered.jisdor[i].Tanggal),
                           to_numeric(filtered.jisdor[i].Rate))],
              dropna_daily)

\* out carries, for each of its Tanggal, the rate of the row of rows that comes
\* last in the sheet among those with that Tanggal.
KeepsLastInFileOrder(out, rows) ==
    \A i \in 1..Len(out) :
        \A k \in 1..Len(rows) :
            (/\ rows[k].Tanggal = out[i].Tanggal
             /\ \A j \in 1..Len(rows) : rows[j].Tanggal = out[i].Tanggal => rows[j].ix <= rows[k].ix)
            => out[i].Rate = rows[k].Rate

\* C2: deduplication is last-write-wins in input order: the output row of a
\* key carries the metric of the last input row with that key, in the combiner
\* (key Provinsi, Tahun, Bulan) and in the daily-series loaders (key Tanggal).
C2_LastWriteWins ==
    /\ ("bi" \in loaded /\ ~raised) => KeepsLastInFileOrder(df_bi, ParsedBi)
    /\ ("jisdor" \in loaded /\ ~raised) => KeepsLastInFileOrder(df_jisdor, ParsedJisdor)
    /\ pc = "combined" =>
          \A i \in 1..2 : ExistingFiles = {i} => IsKeepLastOf(df_all, UsableRows(files[i]))

\* ---- inputs of the upload specification

\* The two inflation workbooks: both missing, or one with two regions and a
\* second that carries one of its keys with another rate.
UploadInflasiFiles ==
    LET none   == InflasiFile(FALSE, FALSE, FALSE, <<>>)
        first  == InflasiFile(TRUE, TRUE, TRUE,
                      << InflasiRow(Txt(Aceh), Whole(2025), Whole(1), Num(300)),
                         InflasiRow(Txt(Bali), Whole(2025), Whole(2), Num(250)) >>)
        second == InflasiFile(TRUE, TRUE, TRUE,
                      << InflasiRow(Txt(Aceh), Whole(2025), Whole(1), Num(350)) >>)
    IN { <<none, none>>, <<first, second>> }

\* Data rows of BI-7Day-RR.xlsx: a day, the same day at noon, the next day.
UploadBiRows ==
    { DailyRow(Whole(1), DateCell(D17), Num(500)),
      DailyRow(Whole(2), DateCell(D17noon), Num(525)),
      DailyRow(Whole(3), DateCell(D18), Num(600)) }

UploadBiSheets ==
    {NoSheet} \cup {Sheet(TRUE, TRUE, 3, rows) : rows \in SeqsUpTo(UploadBiRows, MaxDailyRows)}

UploadJisdorSheets ==
    { NoSheet,
      Sheet(TRUE, TRUE, 3, << DailyRow(Whole(1), DateCell(D17), Num(1650000)),
                              DailyRow(Whole(2), DateCell(D18), Num(1660000)) >>) }

\* What the backend holds before the first run: nothing, or rows of earlier
\* uploads, some with keys the workbooks carry too and some without.
InitialSinks ==
    { EmptySink,
      [inflasi     |-> {[provinsi |-> Aceh, tahun |-> 2025, bulan |-> 1, inflasi |-> 999]},
       bi_7day_rr  |-> {[tanggal |-> date_isoformat(D17), bi_7day_rr |-> 999],
                        [tanggal |-> <<2025, 12, 1>>, bi_7day_rr |-> 400]},
       kurs_jisdor |-> {}] }

\* ---- the upload specification: runs of main()

InitUpload ==
    /\ pc = "start"
    /\ raised = FALSE
    /\ files \in UploadInflasiFiles
    /\ df_all = <<>>
    /\ df_again = <<>>
    /\ bi_file \in UploadBiSheets
    /\ jisdor_file \in UploadJisdorSheets
    /\ kurs_file = NoSheet
    /\ backend_kurs = <<>>
    /\ tie_rank \in TieRanks(MaxDailyRows)
    /\ df_bi = <<>>
    /\ df_jisdor = <<>>
    /\ df_kurs = <<>>
    /\ filtered = NoFiltered
    /\ loaded = {}
    /\ dry_run \in BOOLEAN
    /\ env_ok \in BOOLEAN
    /\ args_batch_size \in 0..MaxBatchSize
    /\ df_inflasi = <<>>
    /\ inflasi_rows = <<>>
    /\ bi_rows = <<>>
    /\ jisdor_rows = <<>>
    /\ table = 0
    /\ i_batch = 0
    /\ calls = <<>>
    /\ sink \in InitialSinks
    /\ sink_start = sink
    /\ run = 1
    /\ sink_run1 = EmptySink
    /\ OthersIdle

uploadInputs ==
    <<otherVars, combinerVars, bi_file, jisdor_file, kurs_file, backend_kurs, tie_rank, df_kurs,
      filtered, loaded, dry_run, env_ok, args_batch_size, run, sink_run1, sink_start>>

\* main() up to the call of utils.baca_data_inflasi_excel() inside
\* _load_inflasi_excel (line 107).
MainCombine ==
    /\ pc = "start"
    /\ LET r == baca_data_inflasi_excel(files)
       IN /\ df_all' = r.df
          /\ raised' = r.exc
          /\ pc' = IF r.exc THEN "raised" ELSE "combined"
    /\ UNCHANGED <<files, df_again, loaderVars, uploadVars, otherVars>>

\* main(), lines 368-370 from there on: the rest of _load_inflasi_excel and the
\* two daily loaders, in order; an exception of one of them leaves main()
\* before the next.
MainLoad ==
    /\ pc = "combined"
    /\ LET inf == load_inflasi_excel([df |-> df_all, exc |-> FALSE])
           bi  == load_bi_excel(bi_file, tie_rank)
           jis == load_jisdor_excel(jisdor_file, tie_rank)
       IN /\ df_inflasi' = inf.df
          /\ df_bi' = IF inf.exc THEN <<>> ELSE bi.df
          /\ df_jisdor' = IF inf.exc \/ bi.exc THEN <<>> ELSE jis.df
          /\ raised' = (inf.exc \/ bi.exc \/ jis.exc)
          /\ pc' = IF inf.exc \/ bi.exc \/ jis.exc THEN "raised" ELSE "loaded"
    /\ UNCHANGED <<uploadInputs, inflasi_rows, bi_rows, jisdor_rows, table, i_batch, calls, sink>>

\* main(), lines 376-378: with --dry-run it returns before any client exists.
MainDryRun ==
    /\ pc = "loaded"
    /\ dry_run
    /\ pc' = "dry_done"
    /\ UNCHANGED <<raised, uploadInputs, df_inflasi, df_bi, df_jisdor, inflasi_rows, bi_rows,
                   jisdor_rows, table, i_batch, calls, sink>>

\* main(), lines 381-385: the client (SystemExit without URL or key), the three
\* payloads, and the entry into the first _upsert_in_batches call with rows.
MainConnect ==
    /\ pc = "loaded"
    /\ ~dry_run
    /\ IF ~env_ok
       THEN /\ pc' = "exit"
            /\ raised' = TRUE
            /\ UNCHANGED <<inflasi_rows, bi_rows, jisdor_rows, table, i_batch>>
       ELSE LET lens == <<Len(df_inflasi), Len(df_bi), Len(df_jisdor)>>
                pos  == next_position(lens, 0, 0, batch_size_of(args_batch_size))
            IN /\ inflasi_rows' = df_to_inflasi_rows(df_inflasi)
               /\ bi_rows' = df_to_bi_rows(df_bi)
               /\ jisdor_rows' = df_to_jisdor_rows(df_jisdor)
               /\ pc' = pos.pc
               /\ table' = pos.table
               /\ i_batch' = pos.i
               /\ UNCHANGED raised
    /\ UNCHANGED <<uploadInputs, df_inflasi, df_bi, df_jisdor, calls, sink>>

\* The rows argument of the running _upsert_in_batches call.
rows_of(t) == <<inflasi_rows, bi_rows, jisdor_rows>>[t]

\* The request of the current loop iteration.
current_call(ok) ==
    [table       |-> Tables[table],
     on_conflict |-> OnConflict[Tables[table]],
     batch       |-> batch_at(rows_of(table), i_batch, batch_size_of(args_batch_size)),
     ok          |-> ok]

current_next ==
    next_position(<<Len(inflasi_rows), Len(bi_rows), Len(jisdor_rows)>>, table, i_batch,
                  batch_size_of(args_batch_size))

\* One iteration of the loop of _upsert_in_batches whose request succeeds; the
\* last iteration of the last call runs on to print("Done.").
UpsertBatchOk ==
    /\ pc = "upsert"
    /\ LET c == current_call(TRUE)
       IN /\ calls' = Append(calls, c)
          /\ sink' = [sink EXCEPT ![c.table] = upsert(@, c.batch, c.on_conflict)]
    /\ pc' = current_next.pc
    /\ table' = current_next.table
    /\ i_batch' = current_next.i
    /\ UNCHANGED <<raised, uploadInputs, df_inflasi, df_bi, df_jisdor, inflasi_rows, bi_rows,
                   jisdor_rows>>

\* One iteration whose request raises.  The backend has either rejected the
\* batch or applied it and lost the response.
UpsertBatchFails ==
    /\ pc = "upsert"
    /\ LET c == current_call(FALSE)
       IN /\ calls' = Append(calls, c)
          /\ \E applied \in BOOLEAN :
                sink' = IF applied
                        THEN [sink EXCEPT ![c.table] = upsert(@, c.batch, c.on_conflict)]
                        ELSE sink
    /\ raised' = TRUE
    /\ LET pos == on_upsert_exception(current_next)
       IN /\ pc' = pos.pc
          /\ table' = pos.table
          /\ i_batch' = pos.i
    /\ UNCHANGED <<uploadInputs, df_inflasi, df_bi, df_jisdor, inflasi_rows, bi_rows, jisdor_rows>>

\* The script is started a second time on the same workbooks, after a first run
\* that printed Done.
RunAgain ==
    /\ pc = "done"
    /\ run = 1
    /\ run' = 2
    /\ pc' = "start"
    /\ raised' = FALSE
    /\ sink_run1' = sink
    /\ sink_start' = sink
    /\ calls' = <<>>
    /\ df_all' = <<>>
    /\ df_inflasi' = <<>>
    /\ df_bi' = <<>>
    /\ df_jisdor' = <<>>
    /\ inflasi_rows' = <<>>
    /\ bi_rows' = <<>>
    /\ jisdor_rows' = <<>>
    /\ UNCHANGED <<otherVars, files, df_again, bi_file, jisdor_file, kurs_file, backend_kurs, tie_rank,
                   df_kurs, filtered, loaded, dry_run, env_ok, args_batch_size, table, i_batch,
                   sink>>

NextUpload ==
    MainCombine \/ MainLoad \/ MainDryRun \/ MainConnect \/ UpsertBatchOk \/ UpsertBatchFails \/ RunAgain

SpecUpload == InitUpload /\ [][NextUpload]_vars

\* ---- claims checked under SpecUpload

CeilDiv(n, b) == (n + b - 1) \div b

\* The requests of the current run for the table with index t, in call order.
CallsFor(t) == SelectSeq(calls, LAMBDA c : c.table = Tables[t])

\* C1: when no request fails, a call of _upsert_in_batches with N > 0 rows and
\* batch size B makes exactly ceil(N/B) requests; every request but the last
\* carries exactly B rows, the last carries N - B*(ceil(N/B) - 1), and the
\* batches in call order, concatenated, are the input list.
C1_Batching ==
    pc = "done" =>
        \A t \in 1..3 :
            LET rows == rows_of(t)
                N    == Len(rows)
                B    == batch_size_of(args_batch_size)
                cs   == CallsFor(t)
            IN N > 0 =>
                /\ Len(cs) = CeilDiv(N, B)
                /\ \A k \in 1..(Len(cs) - 1) : Len(cs[k].batch) = B
                /\ Len(cs[Len(cs)].batch) = N - B * (CeilDiv(N, B) - 1)
                /\ Concat([k \in 1..Len(cs) |-> cs[k].batch]) = rows

\* Three rows uploaded in batches of two: a full batch and a partial last one.
C1_Witness ==
    /\ pc = "done"
    /\ Len(bi_rows) = 3
    /\ batch_size_of(args_batch_size) = 2
    /\ Len(CallsFor(2)) = 2

\* C3: no two rows of one request share the conflict key of its table.
C3_NoDuplicateKeyInBatch ==
    \A k \in 1..Len(calls) :
        \A a, b \in 1..Len(calls[k].batch) :
            a # b => conflict_key(calls[k].batch[a], calls[k].on_conflict)
                     # conflict_key(calls[k].batch[b], calls[k].on_conflict)

\* C5: a second run on the same workbooks, neither run failing, leaves the
\* backend tables as the first run left them, whatever they held before.
C5_ReingestionIdempotent == (pc = "done" /\ run = 2) => sink = sink_run1

\* A second run that wrote several batches over tables that were not empty
\* before the first.
C5_Witness ==
    /\ pc = "done"
    /\ run = 2
    /\ Len(calls) >= 3
    /\ \E x \in sink.bi_7day_rr : x.tanggal = <<2025, 12, 1>>
    /\ sink.inflasi # {}

\* C9: a failed request is the last request of its run, and a run with a failed
\* request stands at the exception, never at Done.
C9_FailFast ==
    \A k \in 1..Len(calls) : ~calls[k].ok => (k = Len(calls) /\ pc = "failed")

\* The second inflation batch fails while rows of the next table wait.
C9_Witness ==
    /\ pc = "failed"
    /\ Len(calls) = 2
    /\ calls[1].ok
    /\ calls[2].table = "inflasi"
    /\ Len(bi_rows) > 0

\* The rows of the first n requests of the run for the table with index t.
RowsSent(t, n) ==
    LET cs == SelectSeq(SubSeq(calls, 1, n), LAMBDA c : c.table = Tables[t])
    IN Concat([k \in 1..Len(cs) |-> cs[k].batch])

\* The table now holds what it held at start with the rows rs written over it:
\* per conflict key the last of rs, and the rows of start whose key rs leaves
\* alone.
WrittenOver(start, now, rs, on_conflict) ==
    LET key(r) == conflict_key(r, on_conflict)
        sent   == {k \in 1..Len(rs) : \A j \in (k + 1)..Len(rs) : key(rs[j]) # key(rs[k])}
    IN \A x \in now \cup start \cup {rs[k] : k \in 1..Len(rs)} :
          x \in now <=> \/ \E k \in sent : rs[k] = x
                        \/ x \in start /\ \A k \in 1..Len(rs) : key(rs[k]) # key(x)

SinkAfter(n) ==
    \A t \in 1..3 :
        WrittenOver(sink_start[Tables[t]], sink[Tables[t]], RowsSent(t, n), OnConflict[Tables[t]])

\* C10, as stated (the failing request itself left aside): a run in which a
\* request fails has written none of its earlier batches.
C10_NoPartialWrite ==
    (\E k \in 1..Len(calls) : ~calls[k].ok) =>
        \/ SinkAfter(0)
        \/ Len(calls) = 1 /\ SinkAfter(1)

\* C10, amended: a failed request aborts the run without undoing anything.  The
\* tables then hold the batches of every request that succeeded before it (and
\* the failing batch too if the backend applied it before the error), written
\* over what they held at the start of the run.
C10_WritesUpToFailure ==
    (\E k \in 1..Len(calls) : ~calls[k].ok) =>
        /\ \A k \in 1..(Len(calls) - 1) : calls[k].ok
        /\ (SinkAfter(Len(calls) - 1) \/ SinkAfter(Len(calls)))

\* A run that failed after a successful batch which changed the tables.
C10_Witness ==
    /\ pc = "failed"
    /\ Len(calls) >= 2
    /\ sink # sink_start
    /\ SinkAfter(Len(calls) - 1)

\* ---------------------------------------- the parsers, one call at a time

\* _parse_tanggal_indonesia of generate_supabase_seed_from_excel.py (lines
\* 47-73): statement for statement that of the upload script, with
\* pd.Timestamp(year, month, day) outside every try.
parse_tanggal_indonesia_seed(c) == parse_tanggal_indonesia(c)

\* _parse_tanggal_indonesia of bi_data.py (lines 31-61): the same statements.
parse_tanggal_indonesia_bi(c) == parse_tanggal_indonesia(c)

\* _parse_rate_percent of utils.py (lines 35-45): the same statements as that
\* of the upload script.
parse_rate_percent_utils(c) == parse_rate_percent(c)

\* sub in s
contains(s, sub) == \E k \in 0..(Len(s) - Len(sub)) : SubSeq(s, k + 1, k + Len(sub)) = sub

\* The texts the except block of _upsert_in_batches looks for in str(e).
upsert_error_texts ==
    [pgrst205 |-> <<"p", "g", "r", "s", "t", "2", "0", "5">>,
     schema_cache |-> <<"s", "c", "h", "e", "m", "a", " ", "c", "a", "c", "h", "e">>,
     could_not_find_the_table |-> <<"c", "o", "u", "l", "d", " ", "n", "o", "t", " ", "f", "i", "n", "d", " ", "t", "h", "e", " ", "t", "a", "b", "l", "e">>,
     row_level_security |-> <<"r", "o", "w", "-", "l", "e", "v", "e", "l", " ", "s", "e", "c", "u", "r", "i", "t", "y">>,
     code_42501 |-> <<"4", "2", "5", "0", "1">>]

\* An except block that looks for the access-control texts first.
classify_upsert_error_rls_first(msg) ==
    IF contains(lower(msg), upsert_error_texts.row_level_security) \/ contains(msg, upsert_error_texts.code_42501) THEN "rls"
    ELSE IF \/ contains(lower(msg), upsert_error_texts.pgrst205)
            \/ contains(lower(msg), upsert_error_texts.schema_cache)
            \/ contains(lower(msg), upsert_error_texts.could_not_find_the_table)
         THEN "table_missing"
    ELSE "reraise"

\* The except block of _upsert_in_batches on msg = str(e): SystemExit with the
\* table-missing guidance, SystemExit with the row-level-security guidance, or
\* the bare raise.
classify_upsert_error(msg) ==
    IF \/ contains(lower(msg), upsert_error_texts.pgrst205)
       \/ contains(lower(msg), upsert_error_texts.schema_cache)
       \/ contains(lower(msg), upsert_error_texts.could_not_find_the_table)
    THEN "table_missing"
    ELSE IF contains(lower(msg), upsert_error_texts.row_level_security) \/ contains(msg, upsert_error_texts.code_42501) THEN "rls"
    ELSE "reraise"

\* ---- inputs of the parser specification

Join3(a, b, c) == a \o <<" ">> \o b \o <<" ">> \o c

DayTexts == {<<"1", "7">>, <<"3", "2">>, <<"2", "9">>, <<"x", "7">>}

MonthTexts == {<<"D", "e", "s", "e", "m", "b", "e", "r">>, <<"D", "E", "S", "E", "M", "B", "E", "R">>, <<"F", "e", "b", "r", "u", "a", "r", "i">>, <<"F", "o", "o">>}

YearTexts == {<<"2", "0", "2", "5">>, <<"2", "0", "2", "4">>, <<"2", "0", "x", "5">>}

\* Texts of the form '<day> <month-name> <year>'.
ThreeTokenTexts == {Join3(d, m, y) : d \in DayTexts, m \in MonthTexts, y \in YearTexts}

\* Other cells a date or a rate column holds.
OtherCells ==
    { NaN, Txt(<<>>), Txt(<<" ", " ">>), DateCell(D17), Num(475), Whole(5),
      Txt(<<"2", "0", "2", "5", "-", "1", "2", "-", "1", "7">>), Txt(<<" ", " ", "1", "7", " ", " ", " ", "d", "e", "s", "e", "m", "b", "e", "r", " ", "2", "0", "2", "5", " ">>), Txt(<<"D", "e", "s", "e", "m", "b", "e", "r", " ", "2", "0", "2", "5">>),
      Txt(<<"4", ",", "7", "5", " ", "%">>), Txt(<<"4", ".", "7", "5">>), Txt(<<" ", "4", ",", "7", "5", "%", " ">>), Txt(<<"a", "b", "c">>), Txt(<<"%">>),
      Txt(<<"4", ",", "7", ",", "5">>) }

\* Parts of the text of an exception the backend client raises.
ErrorParts ==
    { <<"P", "G", "R", "S", "T", "2", "0", "5">>, <<"S", "c", "h", "e", "m", "a", " ", "C", "a", "c", "h", "e">>, <<"C", "o", "u", "l", "d", " ", "n", "o", "t", " ", "f", "i", "n", "d", " ", "t", "h", "e", " ", "t", "a", "b", "l", "e">>, <<"R", "o", "w", "-", "L", "e", "v", "e", "l", " ", "S", "e", "c", "u", "r", "i", "t", "y">>, <<"4", "2", "5", "0", "1">>, <<"t", "i", "m", "e", "o", "u", "t">> }

RECURSIVE JoinParts(_)
JoinParts(ps) ==
    IF ps = <<>> THEN <<>>
    ELSE IF Len(ps) = 1 THEN ps[1]
    ELSE ps[1] \o <<":", " ">> \o JoinParts(Tail(ps))

ErrorTexts == {JoinParts(ps) : ps \in SeqsUpTo(ErrorParts, MaxErrorParts)}

ParserValues ==
    {Txt(s) : s \in ThreeTokenTexts} \cup OtherCells \cup {Txt(s) : s \in ErrorTexts}

\* ---- the parser specification: one parser, or the except block of
\* _upsert_in_batches, is applied to one value

InitParse ==
    /\ pc = "start"
    /\ raised = FALSE
    /\ CombinerIdle
    /\ LoaderIdle
    /\ UploaderIdle
    /\ SeedIdle
    /\ AppIdle
    /\ value \in ParserValues
    /\ returned = NoOut

\* _parse_tanggal_indonesia(value) of upload_excel_to_supabase.py.
ParseTanggalUpload ==
    /\ pc = "start"
    /\ LET r == parse_tanggal_indonesia(value)
       IN /\ returned' = Out("tanggal_upload", r.exc, r.ts, NaN, "", <<>>)
          /\ raised' = r.exc
    /\ pc' = "parsed"
    /\ UNCHANGED <<nonParserVars, value>>

\* _parse_tanggal_indonesia(value) of generate_supabase_seed_from_excel.py.
ParseTanggalSeed ==
    /\ pc = "start"
    /\ LET r == parse_tanggal_indonesia_seed(value)
       IN /\ returned' = Out("tanggal_seed", r.exc, r.ts, NaN, "", <<>>)
          /\ raised' = r.exc
    /\ pc' = "parsed"
    /\ UNCHANGED <<nonParserVars, value>>

\* _parse_tanggal_indonesia(value) of bi_data.py.
ParseTanggalBi ==
    /\ pc = "start"
    /\ LET r == parse_tanggal_indonesia_bi(value)
       IN /\ returned' = Out("tanggal_bi", r.exc, r.ts, NaN, "", <<>>)
          /\ raised' = r.exc
    /\ pc' = "parsed"
    /\ UNCHANGED <<nonParserVars, value>>

\* _parse_tanggal_indonesia(value) of kurs_data.py.
ParseTanggalKurs ==
    /\ pc = "start"
    /\ returned' = Out("tanggal_kurs", FALSE, parse_tanggal_indonesia_kurs(value), NaN, "", <<>>)
    /\ pc' = "parsed"
    /\ UNCHANGED <<nonParserVars, value, raised>>

\* _parse_rate_percent(value) of utils.py.
ParseRateUtils ==
    /\ pc = "start"
    /\ returned' = Out("rate_utils", FALSE, NaT, parse_rate_percent_utils(value), "", <<>>)
    /\ pc' = "parsed"
    /\ UNCHANGED <<nonParserVars, value, raised>>

\* _parse_rate_percent(value) of upload_excel_to_supabase.py.
ParseRateUpload ==
    /\ pc = "start"
    /\ returned' = Out("rate_upload", FALSE, NaT, parse_rate_percent(value), "", <<>>)
    /\ pc' = "parsed"
    /\ UNCHANGED <<nonParserVars, value, raised>>

\* An upsert raises an exception whose text is value: the except block either
\* exits with one of its two guidances or re-raises the exception as it is.
UpsertRaises ==
    /\ pc = "start"
    /\ value.t = "str"
    /\ returned' = Out("upsert_except", TRUE, NaT, NaN, classify_upsert_error(value.s), value.s)
    /\ raised' = TRUE
    /\ pc' = "parsed"
    /\ UNCHANGED <<nonParserVars, value>>

NextParse ==
    \/ ParseTanggalUpload
    \/ ParseTanggalSeed
    \/ ParseTanggalBi
    \/ ParseTanggalKurs
    \/ ParseRateUtils
    \/ ParseRateUpload
    \/ UpsertRaises

SpecParse == InitParse /\ [][NextParse]_vars

\* ---- claims on the parser specification

InTableMissingGroup(msg) ==
    \/ contains(lower(msg), upsert_error_texts.pgrst205)
    \/ contains(lower(msg), upsert_error_texts.schema_cache)
    \/ contains(lower(msg), upsert_error_texts.could_not_find_the_table)

InAccessControlGroup(msg) ==
    \/ contains(lower(msg), upsert_error_texts.row_level_security)
    \/ contains(msg, upsert_error_texts.code_42501)

\* C11: a failed upsert ends in exactly one of three outcomes, decided by the
\* text of the error whatever the case of its letters: the table-missing
\* guidance when it holds 'pgrst205', 'schema cache' or 'could not find the
\* table' (also when it holds an access-control text as well), otherwise the
\* access-control guidance when it holds 'row-level security' or '42501',
\* otherwise the exception re-raised with its text unchanged.
C11_ErrorClassification ==
    returned.fn = "upsert_except" =>
        /\ returned.kind \in {"table_missing", "rls", "reraise"}
        /\ returned.kind = "table_missing" <=> InTableMissingGroup(value.s)
        /\ returned.kind = "rls" <=>
               (InAccessControlGroup(value.s) /\ ~InTableMissingGroup(value.s))
        /\ returned.kind = "reraise" =>
               (returned.exc /\ returned.detail = value.s)

\* An error of both groups was classified.
C11_Witness ==
    /\ returned.fn = "upsert_except"
    /\ InTableMissingGroup(value.s)
    /\ InAccessControlGroup(value.s)
    /\ returned.kind = "table_missing"

DateParsers == {"tanggal_upload", "tanggal_seed", "tanggal_bi", "tanggal_kurs"}

\* The date a text '<day> <month-name> <year>' stands for, NaT when its month
\* name is not in the lexicon, its day or year is not an integer, or its day
\* is out of range.
DateOfThreeTokens(s) ==
    LET parts == split(strip(s))
        month == id_month_get(lower(parts[2]))
        day   == int_of(parts[1])
        year  == int_of(parts[3])
    IN IF Len(parts) = 3 /\ month # 0 /\ day.ok /\ year.ok /\ ValidDate(year.v, month, day.v)
       THEN Timestamp(year.v, month, day.v, 0)
       ELSE NaT

IsThreeTokenText(c) == c.t = "str" /\ Len(split(strip(c.s))) = 3

\* C16: every copy of the local date parser (upload script, seed script, BI
\* module, exchange-rate module) returns, for a text '<day> <month-name>
\* <year>', the date when the month name is one of the twelve (in any case)
\* and day and year are integers, and the invalid value in every other case
\* (unknown month, non-integer or out-of-range day, empty or null input); it
\* never raises.
C16_DateParserTotal ==
    returned.fn \in DateParsers =>
        /\ ~returned.exc
        /\ IsThreeTokenText(value) => returned.ts = DateOfThreeTokens(value.s)
        /\ (isna(value) \/ (value.t = "str" /\ strip(value.s) = <<>>)) => returned.ts = NaT

\* The exchange-rate module's copy on its own does what the claim says.
C16_KursCopyTotal ==
    returned.fn = "tanggal_kurs" =>
        /\ ~returned.exc
        /\ IsThreeTokenText(value) => returned.ts = DateOfThreeTokens(value.s)

RateParsers == {"rate_utils", "rate_upload"}

\* C17: the percent parser drops the percent sign and the blanks, reads a
\* decimal comma as a period and parses the rest as a number: '4,75 %' gives
\* 4.75, a number gives the same number, and an empty cell, an empty text or a
\* text that is no number after the cleaning ('abc') gives the invalid value;
\* it never raises.
C17_PercentParser ==
    returned.fn \in RateParsers =>
        /\ ~returned.exc
        /\ value = Txt(<<"4", ",", "7", "5", " ", "%">>) => returned.num = Num(475)
        /\ value = Txt(<<" ", "4", ",", "7", "5", "%", " ">>) => returned.num = Num(475)
        /\ value = Txt(<<"4", ".", "7", "5">>) => returned.num = Num(475)
        /\ value.t = "num" => returned.num = value
        /\ isna(value) => returned.num = NaN
        /\ (value.t = "str" /\ strip(value.s) = <<>>) => returned.num = NaN
        /\ value \in {Txt(<<"a", "b", "c">>), Txt(<<"%">>), Txt(<<"4", ",", "7", ",", "5">>)} => returned.num = NaN

\* '4,75 %' was parsed by the copy of utils.py.
C17_Witness ==
    /\ returned.fn = "rate_utils"
    /\ value = Txt(<<"4", ",", "7", "5", " ", "%">>)
    /\ returned.num = Num(475)

\* ---- further claims on the upload specification

\* A client came out of _get_supabase_client() in this run.
ClientExists == pc \in {"upsert", "done", "failed"}

\* df is what a daily workbook normalizes to: one row per Tanggal of the
\* sheet's data rows, ascending.
IsNormalizedDaily(df, sh) ==
    /\ \A i \in 1..Len(df) : \A j \in (i + 1)..Len(df) : TsLess(df[i].Tanggal, df[j].Tanggal)
    /\ \A i \in 1..Len(df) : \E k \in 1..Len(sh.rows) : sh.rows[k].Tanggal.ts = df[i].Tanggal
    /\ (sh.exists /\ sh.readable /\ sh.ncols >= 3) =>
           \A k \in 1..Len(sh.rows) : \E i \in 1..Len(df) : df[i].Tanggal = sh.rows[k].Tanggal.ts

AllTablesNormalized ==
    /\ IsKeepLastOf(df_inflasi, UsableRows(files[1]) \o UsableRows(files[2]))
    /\ IsNormalizedDaily(df_bi, bi_file)
    /\ IsNormalizedDaily(df_jisdor, jisdor_file)

\* C12: no write precedes full normalization: whenever a run has created the
\* sink client or made an upsert call, all three canonical tables (inflation,
\* reference rate, exchange rate) are completely loaded, normalized and
\* deduplicated.
C12_NoWriteBeforeNormalization ==
    (calls # <<>> \/ ClientExists) => AllTablesNormalized

\* A request went out for tables that lost rows to the dedup.
C12_Witness ==
    /\ calls # <<>>
    /\ ClientExists
    /\ Len(df_inflasi) = 2
    /\ Len(df_bi) >= 1
    /\ Len(df_bi) < Len(bi_file.rows)
    /\ Len(df_jisdor) = 2

\* The batches of the requests made so far for table number t.
BatchesSent(t) ==
    LET mine == SelectSeq(calls, LAMBDA c : c.table = Tables[t])
    IN [k \in 1..Len(mine) |-> mine[k].batch]

\* C14: a run with --dry-run reads and normalizes the three tables but never
\* creates a sink client and never makes an upsert call, whatever the
\* workbooks and whether or not credentials are configured; and
\* _upsert_in_batches called with dry_run true makes no upsert call.
C14_DryRunWritesNothing ==
    /\ dry_run =>
          /\ calls = <<>>
          /\ ~ClientExists
          /\ pc # "exit"
          /\ sink = sink_start
          /\ pc = "dry_done" => AllTablesNormalized
    /\ \A t \in 1..3 :
          /\ upsert_in_batches(rows_of(t), batch_size_of(args_batch_size), TRUE) = <<>>
          /\ pc = "done" =>
                BatchesSent(t) = upsert_in_batches(rows_of(t), batch_size_of(args_batch_size), FALSE)

\* A dry run ended with tables that hold rows, without credentials.
C14_Witness ==
    /\ dry_run
    /\ ~env_ok
    /\ pc = "dry_done"
    /\ Len(df_inflasi) = 2
    /\ Len(df_bi) >= 2
    /\ Len(df_jisdor) = 2

\* A live run made requests for a payload that a dry call leaves alone.
C14_WitnessCall ==
    /\ ~dry_run
    /\ pc = "done"
    /\ Len(bi_rows) >= 2
    /\ Len(BatchesSent(2)) >= 2

\* ------------------- seed generator (generate_supabase_seed_from_excel.py)

\* chunk_size: int = 500 of the three _emit_inserts_* functions.
DefaultChunkSize == 500

\* Chunks that overlap by one row.
chunked_overlapping(rows, chunk_size) ==
    [k \in 1..((Len(rows) + chunk_size - 1) \div chunk_size) |->
        SubSeq(rows, (k - 1) * chunk_size + 1,
               IF k * chunk_size + 1 < Len(rows) THEN k * chunk_size + 1 ELSE Len(rows))]

\* _chunked: rows[i : i + chunk_size] for i in range(0, len(rows), chunk_size).
chunked(rows, chunk_size) ==
    [k \in 1..((Len(rows) + chunk_size - 1) \div chunk_size) |->
        SubSeq(rows, (k - 1) * chunk_size + 1,
               IF k * chunk_size < Len(rows) THEN k * chunk_size ELSE Len(rows))]

\* What f.write() appends: a comment, or one statement "insert into
\* public.<table> (<columns>) values <tuples> on conflict (<on_conflict>) do
\* update set <update> = excluded.<update>;".
Comment(tbl, text) ==
    [kind |-> "comment", table |-> tbl, columns |-> <<>>, values |-> <<>>,
     on_conflict |-> <<>>, update |-> "", text |-> text]

Insert(tbl, columns, values, on_conflict, update) ==
    [kind |-> "insert", table |-> tbl, columns |-> columns, values |-> values,
     on_conflict |-> on_conflict, update |-> update, text |-> ""]

\* Timestamp.normalize(): midnight of the same day.
normalize(x) == Timestamp(x.y, x.m, x.d, 0)

\* An emitter that conflicts on the date and the rate.
emit_inserts_bi_wide_key(df, chunk_size) ==
    LET rows  == [k \in 1..Len(df) |-> <<normalize(df[k].Tanggal), df[k].Rate>>]
        parts == chunked(rows, chunk_size)
    IN <<Comment("bi_7day_rr", "header")>> \o
       [k \in 1..Len(parts) |->
           Insert("bi_7day_rr", <<"tanggal", "bi_7day_rr">>, parts[k],
                  <<"tanggal", "bi_7day_rr">>, "bi_7day_rr")]

\* _emit_inserts_inflasi(f, df, chunk_size): what it writes to f.
emit_inserts_inflasi(df, chunk_size) ==
    LET rows  == [k \in 1..Len(df) |->
                     <<df[k].Provinsi, df[k].Tahun, df[k].Bulan, df[k].Inflasi>>]
        parts == chunked(rows, chunk_size)
    IN IF rows = <<>> THEN <<Comment("inflasi", "header"), Comment("inflasi", "empty")>>
       ELSE <<Comment("inflasi", "header")>> \o
            [k \in 1..Len(parts) |->
                Insert("inflasi", <<"provinsi", "tahun", "bulan", "inflasi">>, parts[k],
                       <<"provinsi", "tahun", "bulan">>, "inflasi")]

\* _emit_inserts_bi(f, df, chunk_size).
emit_inserts_bi(df, chunk_size) ==
    LET rows  == [k \in 1..Len(df) |-> <<normalize(df[k].Tanggal), df[k].Rate>>]
        parts == chunked(rows, chunk_size)
    IN IF rows = <<>> THEN <<Comment("bi_7day_rr", "header"), Comment("bi_7day_rr", "empty")>>
       ELSE <<Comment("bi_7day_rr", "header")>> \o
            [k \in 1..Len(parts) |->
                Insert("bi_7day_rr", <<"tanggal", "bi_7day_rr">>, parts[k],
                       <<"tanggal">>, "bi_7day_rr")]

\* _emit_inserts_jisdor(f, df, chunk_size).
emit_inserts_jisdor(df, chunk_size) ==
    LET rows  == [k \in 1..Len(df) |-> <<normalize(df[k].Tanggal), df[k].Rate>>]
        parts == chunked(rows, chunk_size)
    IN IF rows = <<>> THEN <<Comment("kurs_jisdor", "header"), Comment("kurs_jisdor", "empty")>>
       ELSE <<Comment("kurs_jisdor", "header")>> \o
            [k \in 1..Len(parts) |->
                Insert("kurs_jisdor", <<"tanggal", "kurs">>, parts[k], <<"tanggal">>, "kurs")]

\* ---- inputs of the seed specification

\* Row k of a loaded inflation table, with the values of its cells: one
\* province, month after month.
SeedInflasiRow(k) == InflasiRow(Aceh, 2000 + ((k - 1) \div 12), ((k - 1) % 12) + 1, k)

\* Row k of a loaded daily table: day after day in months of 28 days.
SeedDailyRow(k) ==
    TableRow(k, Timestamp(2000 + ((k - 1) \div 336), (((k - 1) \div 28) % 12) + 1,
                          ((k - 1) % 28) + 1, 0), k)

SeedInflasi(n) == [k \in 1..n |-> SeedInflasiRow(k)]

SeedDaily(n) == [k \in 1..n |-> SeedDailyRow(k)]

\* Table sizes around the multiples of the chunk size.
SeedSizes ==
    <<0, 1>> \o Concat([c \in 1..MaxChunks |->
                           <<c * DefaultChunkSize - 1, c * DefaultChunkSize,
                             c * DefaultChunkSize + 1>>])

SeedTables ==
    {[inflasi     |-> SeedInflasi(SeedSizes[i]),
      bi_7day_rr  |-> SeedDaily(SeedSizes[(i % Len(SeedSizes)) + 1]),
      kurs_jisdor |-> SeedDaily(SeedSizes[((i + 1) % Len(SeedSizes)) + 1])] :
        i \in 1..Len(SeedSizes)}

\* The daily workbook of the upload runs of this specification.
DailyWorkbook ==
    Sheet(TRUE, TRUE, 3, << DailyRow(Whole(1), DateCell(D17), Num(500)),
                            DailyRow(Whole(2), DateCell(D18), Num(600)) >>)

\* ---- the seed specification: a run of the uploader, a run of the seed
\* generator, or one after the other, on the same machine

InitSeed ==
    /\ pc = "start"
    /\ raised = FALSE
    /\ files \in UploadInflasiFiles
    /\ df_all = <<>>
    /\ df_again = <<>>
    /\ bi_file = DailyWorkbook
    /\ jisdor_file = DailyWorkbook
    /\ kurs_file = NoSheet
    /\ backend_kurs = <<>>
    /\ tie_rank = [i \in 1..MaxDailyRows |-> i]
    /\ df_bi = <<>>
    /\ df_jisdor = <<>>
    /\ df_kurs = <<>>
    /\ filtered = NoFiltered
    /\ loaded = {}
    /\ dry_run \in BOOLEAN
    /\ env_ok \in BOOLEAN
    /\ args_batch_size \in 1..MaxBatchSize
    /\ df_inflasi = <<>>
    /\ inflasi_rows = <<>>
    /\ bi_rows = <<>>
    /\ jisdor_rows = <<>>
    /\ table = 0
    /\ i_batch = 0
    /\ calls = <<>>
    /\ sink = EmptySink
    /\ sink_start = EmptySink
    /\ run = 1
    /\ sink_run1 = EmptySink
    /\ ParserIdle
    /\ seed_df \in SeedTables
    /\ out_file = <<>>
    /\ AppIdle

\* main() of the seed generator up to _emit_inserts_inflasi(f, df_inflasi),
\* started on its own or after an upload that printed Done.
SeedEmitInflasi ==
    /\ pc \in {"start", "done"}
    /\ out_file' = out_file \o emit_inserts_inflasi(seed_df.inflasi, DefaultChunkSize)
    /\ pc' = "seed_inflasi"
    /\ UNCHANGED <<raised, nonSeedVars, uploadVars, seed_df>>

\* _emit_inserts_bi(f, df_bi)
SeedEmitBi ==
    /\ pc = "seed_inflasi"
    /\ out_file' = out_file \o emit_inserts_bi(seed_df.bi_7day_rr, DefaultChunkSize)
    /\ pc' = "seed_bi"
    /\ UNCHANGED <<raised, nonSeedVars, uploadVars, seed_df>>

\* _emit_inserts_jisdor(f, df_jisdor) and f.write("commit;\n")
SeedEmitJisdor ==
    /\ pc = "seed_bi"
    /\ out_file' = out_file \o emit_inserts_jisdor(seed_df.kurs_jisdor, DefaultChunkSize)
                       \o <<Comment("", "commit")>>
    /\ pc' = "seeded"
    /\ UNCHANGED <<raised, nonSeedVars, uploadVars, seed_df>>

NextSeed ==
    \/ MainCombine
    \/ MainLoad
    \/ MainDryRun
    \/ MainConnect
    \/ UpsertBatchOk
    \/ UpsertBatchFails
    \/ RunAgain
    \/ SeedEmitInflasi
    \/ SeedEmitBi
    \/ SeedEmitJisdor

SpecSeed == InitSeed /\ [][NextSeed]_vars

\* ---- claims on the seed specification

\* The natural key of each sink table.
NaturalKey ==
    [inflasi     |-> <<"provinsi", "tahun", "bulan">>,
     bi_7day_rr  |-> <<"tanggal">>,
     kurs_jisdor |-> <<"tanggal">>]

InsertsOf(tbl) == SelectSeq(out_file, LAMBDA st : st.kind = "insert" /\ st.table = tbl)

\* C13: both sinks use the natural key as conflict target for every write:
\* every upsert call and every emitted INSERT statement for the inflation
\* table conflicts on (provinsi, tahun, bulan), and every one for the
\* reference-rate and the exchange-rate table on (tanggal) alone.
C13_NaturalKeyConflictTarget ==
    /\ \A k \in 1..Len(calls) : calls[k].on_conflict = NaturalKey[calls[k].table]
    /\ \A k \in 1..Len(out_file) :
          out_file[k].kind = "insert" =>
              /\ out_file[k].table \in DOMAIN NaturalKey
              /\ out_file[k].on_conflict = NaturalKey[out_file[k].table]

\* Requests went to, and statements were written for, all three tables.
C13_Witness ==
    /\ pc = "seeded"
    /\ \A t \in 1..3 : \E k \in 1..Len(calls) : calls[k].table = Tables[t]
    /\ \A t \in 1..3 : InsertsOf(Tables[t]) # <<>>

\* C18: for a table of N rows the seed generator emits exactly ceil(N/500)
\* INSERT statements for that table, each with at most 500 value tuples, which
\* together hold every row exactly once in table order, each ending in an ON
\* CONFLICT (natural key) DO UPDATE clause; for N = 0 it emits no INSERT
\* statement for that table, only a comment.
C18_ChunkedBy500 ==
    \A t \in 1..3 :
        (\E k \in 1..Len(out_file) : out_file[k].table = Tables[t]) =>
            LET df  == seed_df[Tables[t]]
                ins == InsertsOf(Tables[t])
                n   == Len(df)
            IN /\ Len(ins) = (n + 499) \div 500
               /\ \A k \in 1..Len(ins) :
                     /\ Len(ins[k].values) >= 1
                     /\ Len(ins[k].values) <= 500
                     /\ ins[k].on_conflict = NaturalKey[Tables[t]]
                     /\ ins[k].update # ""
               /\ Len(Concat([k \in 1..Len(ins) |-> ins[k].values])) = n
               /\ \A k \in 1..Len(ins) : \A j \in 1..Len(ins[k].values) :
                     LET r == df[(k - 1) * 500 + j]
                         v == ins[k].values[j]
                     IN v = (IF t = 1 THEN <<r.Provinsi, r.Tahun, r.Bulan, r.Inflasi>>
                             ELSE <<normalize(r.Tanggal), r.Rate>>)
               /\ n = 0 =>
                     \E k \in 1..Len(out_file) :
                         out_file[k] = Comment(Tables[t], "empty")

\* A table of 1001 rows went out in three statements, one of 0 rows in none.
C18_Witness ==
    /\ pc = "seeded"
    /\ \E t \in 1..3 : Len(seed_df[Tables[t]]) = 2 * DefaultChunkSize + 1 /\ Len(InsertsOf(Tables[t])) = 3
    /\ \E t \in 1..3 : Len(seed_df[Tables[t]]) = 0 /\ InsertsOf(Tables[t]) = <<>>

\* ---- a further claim on the loader specification

\* A workbook that is missing, that pd.read_excel cannot read, or whose sheet
\* has none of the known layouts.
BadWorkbook(sh) == ~sh.exists \/ ~sh.readable \/ sh.ncols < 3

\* C15: failure policy: for every loader of the ingestion pipeline an
\* unreadable file, an I/O error while reading or a layout of no known shape
\* yields the empty canonical table, and never an unhandled exception.
C15_FailurePolicy ==
    /\ ("bi" \in loaded /\ BadWorkbook(bi_file)) =>
           (df_bi = <<>> /\ ~load_bi_excel(bi_file, tie_rank).exc)
    /\ ("jisdor" \in loaded /\ BadWorkbook(jisdor_file)) =>
           (df_jisdor = <<>> /\ ~load_jisdor_excel(jisdor_file, tie_rank).exc)
    /\ ("kurs" \in loaded /\ backend_kurs = <<>> /\ BadWorkbook(kurs_file)) =>
           (df_kurs = <<>> /\ ~baca_data_kurs(backend_kurs, kurs_file).exc)

\* The policy holds for workbooks that are missing or of an unknown layout.
C15_MissingOrUnknownLayout ==
    \A name \in loaded :
        LET sh == SheetOf(name)
        IN ((~sh.exists \/ (sh.readable /\ sh.ncols < 3)) /\ (name = "kurs" => backend_kurs = <<>>))
               => TableOf(name) = <<>>

\* ------------------------------------------- the application (app.py, ui.py)

\* pages_by_group of main(): the pages of the sidebar navigation by category.
pages_by_group ==
    ("Data Inflasi" :> <<"Visualisasi Inflasi", "Analisis GIS Inflasi", "Statistik Data",
                         "Database Inflasi">>)
    @@ ("Data BI" :> <<"Data BI-7Day-RR", "Database BI">>)
    @@ ("Data Kurs" :> <<"Data Kurs JISDOR", "Database Kurs">>)
    @@ ("Tools" :> <<"Kalkulator Mata Uang">>)

PagesOf(g) == {pages_by_group[g][k] : k \in 1..Len(pages_by_group[g])}

\* all_pages of main().
all_pages == UNION {PagesOf(g) : g \in DOMAIN pages_by_group}

\* The loop of main() that looks for the category of the active page, with
\* its fallback.
current_group_of(page) ==
    IF page \in all_pages THEN CHOOSE g \in DOMAIN pages_by_group : page \in PagesOf(g)
    ELSE "Data Inflasi"

\* A URL whose parameter "state" decodes to a dict with app_page = page, and
\* one whose parameter does not decode.
Token(page) == [given |-> TRUE, valid |-> TRUE, app_page |-> page]

BadToken == [given |-> TRUE, valid |-> FALSE, app_page |-> NoneValue]

\* _decode_url_state: the payload, None (is_dict FALSE) for a token that does
\* not decode to a dict.
decode_url_state(token) ==
    IF token.valid THEN [is_dict |-> TRUE, app_page |-> token.app_page]
    ELSE [is_dict |-> FALSE, app_page |-> NoneValue]

\* sync_state_from_url("app", keys=["app_page"]) on the session ss: once per
\* session, a key of the payload is copied when the session does not hold it.
sync_state_from_url(ss, qp) ==
    LET payload == decode_url_state(qp)
        hydrate == /\ qp.given
                   /\ payload.is_dict
                   /\ payload.app_page # NoneValue
                   /\ ss.app_page = NoneValue
    IN IF ss.url_state_loaded_app THEN ss
       ELSE [ss EXCEPT !.app_page = IF hydrate THEN payload.app_page ELSE @,
                       !.url_state_loaded_app = TRUE]

\* request_navigation(page_label) and _apply_payload of a saved view with
\* app_page = page_label: the request is left in _app_page_pending.
request_navigation(ss, page_label) == [ss EXCEPT !.app_page_pending = page_label]

\* The texts with blanks around them that a request can carry, and what
\* str.strip() leaves of them; strip() returns any other text of this model as
\* it is.
Stripped == (" Database BI " :> "Database BI") @@ ("  " :> "")

str_strip(s) == IF s \in DOMAIN Stripped THEN Stripped[s] ELSE s

\* A consumption that applies any text that is not blank.
apply_pending_unvalidated(ss) ==
    LET wanted == str_strip(ss.app_page_pending)
    IN [ss EXCEPT !.app_page_pending = NoneValue,
                  !.app_page = IF wanted # "" THEN wanted ELSE @]

\* Lines 98-103 of main(): st.session_state.pop("_app_page_pending", None),
\* and app_page = pending_page.strip() when that is a text with something
\* other than blanks in it and a page of the sidebar navigation.
apply_pending(ss) ==
    LET pending_page == ss.app_page_pending
        wanted       == str_strip(pending_page)
    IN [ss EXCEPT !.app_page_pending = NoneValue,
                  !.app_page = IF pending_page # NoneValue /\ wanted # "" /\ wanted \in all_pages
                               THEN wanted ELSE @]

\* A main() that routes to whatever text the session holds under app_page.
app_main_unchecked(ss, qp, dashboard_main, index_before, keyed) ==
    LET s1 == IF ss.app_page = NoneValue THEN [ss EXCEPT !.app_page = "Dashboard Utama"] ELSE ss
        s4 == apply_pending(sync_state_from_url(s1, qp))
        current_group == current_group_of(s4.app_page)
    IN [session |-> [s4 EXCEPT !.nav_group = current_group],
        halaman |-> s4.app_page,
        index   |-> current_group,
        request |-> ss.app_page_pending]

\* main() from its first line to the routing: the session after the pass, the
\* page routed to, the index argument of the "Kategori" selectbox and the
\* request taken from _app_page_pending.  The selectbox returns the value the
\* session holds under its key; a Streamlit that identifies a widget by its
\* arguments (keyed = FALSE) gives it the default of index when index is not
\* that of the pass before.
app_main(ss, qp, dashboard_main, index_before, keyed) ==
    LET s1 == IF ss.app_page = NoneValue THEN [ss EXCEPT !.app_page = "Dashboard Utama"] ELSE ss
        s2 == sync_state_from_url(s1, qp)
        pending_page == s2.app_page_pending
        s3 == apply_pending(s2)
        s4 == IF dashboard_main THEN [s3 EXCEPT !.app_page = "Dashboard Utama"] ELSE s3
        current_page  == s4.app_page
        current_group == current_group_of(current_page)
        stored == IF s4.nav_group \notin DOMAIN pages_by_group THEN current_group ELSE s4.nav_group
        nav_group == IF keyed \/ index_before = current_group THEN stored ELSE current_group
        in_group  == IF current_page \in PagesOf(nav_group) THEN current_page
                     ELSE pages_by_group[nav_group][1]
        selected_page == in_group
        routed == IF selected_page # current_page /\ current_page # "Dashboard Utama"
                  THEN selected_page
                  ELSE IF current_page = "Dashboard Utama" THEN "Dashboard Utama"
                  ELSE selected_page
    IN [session |-> [s4 EXCEPT !.nav_group = nav_group, !.app_page = in_group],
        halaman |-> routed,
        index   |-> current_group,
        request |-> pending_page]

\* ---- inputs of the application specification

Tokens == {NoToken, BadToken} \cup {Token(page) : page \in all_pages}

\* The texts a request can leave in _app_page_pending: a page of the sidebar
\* navigation, the landing page, a page that does not exist, blanks, and a
\* page with blanks around it.
PendingTexts == all_pages \cup {"Dashboard Utama", "Halaman Lain", "  ", " Database BI "}

\* ---- the application specification: render passes of one session

InitApp ==
    /\ pc = "start"
    /\ raised = FALSE
    /\ CombinerIdle
    /\ LoaderIdle
    /\ UploaderIdle
    /\ ParserIdle
    /\ SeedIdle
    /\ session_state = FreshSession
    /\ query_params \in Tokens
    /\ halaman = NoneValue
    /\ kategori_index = NoneValue
    /\ keyed_identity \in BOOLEAN
    /\ passes = 0
    /\ last_request = NoneValue

\* One run of the script on the session ss; goto is the page a button of the
\* rendered page asks for in this run, by request_navigation or by a saved
\* view, or None.
RenderPass(ss, dashboard_main, goto) ==
    /\ passes < MaxPasses
    /\ LET r == app_main(ss, query_params, dashboard_main, kategori_index, keyed_identity)
       IN /\ session_state' = IF goto = NoneValue THEN r.session
                              ELSE request_navigation(r.session, goto)
          /\ halaman' = r.halaman
          /\ kategori_index' = r.index
          /\ last_request' = r.request
    /\ passes' = passes + 1
    /\ UNCHANGED <<nonAppVars, query_params, keyed_identity>>

\* The first load, a reload, or the run st.rerun() starts.
Rerun ==
    /\ passes \in 0..MaxPasses
    /\ RenderPass(session_state, FALSE, NoneValue)

\* The user clicks the sidebar button "Dashboard Utama".
ClickDashboardMain ==
    /\ passes >= 1
    /\ session_state.app_page_pending = NoneValue
    /\ RenderPass(session_state, TRUE, NoneValue)

\* The user picks a category in the selectbox "Kategori".
SelectKategori ==
    /\ passes >= 1
    /\ session_state.app_page_pending = NoneValue
    /\ \E g \in DOMAIN pages_by_group :
          RenderPass([session_state EXCEPT !.nav_group = g], FALSE, NoneValue)

\* The user picks a page of the shown category in the radio "Navigasi".
SelectNavigasi ==
    /\ passes >= 1
    /\ session_state.app_page_pending = NoneValue
    /\ \E page \in PagesOf(session_state.nav_group) :
          RenderPass([session_state EXCEPT !.app_page = page], FALSE, NoneValue)

\* The user clicks a button of the rendered page that calls
\* request_navigation(page), or applies a saved view with app_page = page.
RequestNavigation ==
    /\ passes >= 1
    /\ session_state.app_page_pending = NoneValue
    /\ \E page \in PendingTexts : RenderPass(session_state, FALSE, page)

NextApp ==
    \/ Rerun
    \/ ClickDashboardMain
    \/ SelectKategori
    \/ SelectNavigasi
    \/ RequestNavigation

SpecApp == InitApp /\ [][NextApp]_vars

\* ---- claims on the application specification

\* C19: two-phase navigation reaches its target: for every page P of the
\* sidebar navigation and every session state, in particular every selected
\* category, a request for P staged during one render pass makes P the page
\* that the next pass routes to and renders.
C19_NavigationReachesTarget ==
    last_request \in all_pages =>
        /\ halaman = last_request
        /\ session_state.app_page = last_request

\* With a Streamlit that identifies widgets by their arguments the request
\* reaches its page: the selectbox falls back to the category of the page.
C19_ReachedByArgumentIdentity ==
    (~keyed_identity /\ last_request \in all_pages) => halaman = last_request

\* A request for a page of the selected category reaches it.
C19_SameCategoryReached ==
    (last_request \in all_pages /\ current_group_of(last_request) = session_state.nav_group)
        => halaman = last_request

\* C20: a deep link sets the active page: the first render pass of a new
\* session whose URL carries a valid state token with app_page = P, P a page
\* of the sidebar navigation, makes P the active page.
C20_DeepLinkSetsActivePage ==
    (passes = 1 /\ query_params.given /\ query_params.valid /\ query_params.app_page \in all_pages)
        => /\ halaman = query_params.app_page
           /\ session_state.app_page = query_params.app_page

\* The URL is looked at once per session.
C20_OncePerSession == passes >= 1 => session_state.url_state_loaded_app

\* --------------------------------------- URL state hydration (ui.py), any
\* --------------------------------------- namespace and key list

\* A key st.session_state or a payload does not hold.
Absent == "<absent>"

\* The calls of sync_state_from_url in app.py (line 55) and bi_data.py (line
\* 133): namespace, keys, and the keys that have a coercer.
sync_calls ==
    ("app" :> [keys |-> <<"app_page">>, coercers |-> {}])
    @@ ("bi" :> [keys |-> <<"app_page", "bi_start", "bi_view">>,
                 coercers |-> {"bi_start"}])

\* flag = f"_url_state_loaded_{namespace}"
flag_of(namespace) == "_url_state_loaded_" \o namespace

\* The keys of st.session_state and of a payload looked at here; nav_group is
\* in no key list.
StateKeys == {"app_page", "bi_start", "bi_view", "nav_group"}

FlagKeys == {flag_of(namespace) : namespace \in DOMAIN sync_calls}

\* coerce_iso_date: the date of a text 'YYYY-MM-DD'; any other value comes
\* back as it is.
coerce_iso_date(v) == IF v = "2024-01-02" THEN "date(2024, 1, 2)" ELSE v

\* The query parameter "state": missing, an empty list, blank text, text that
\* does not decode, text that decodes to a list, text that decodes to a dict.
UrlToken(kind, payload) == [kind |-> kind, payload |-> payload]

NoPayload == [k \in StateKeys |-> Absent]

\* The same body without the test "k not in st.session_state".
sync_state_from_url_overwrite(ss, namespace, token) ==
    LET flag == flag_of(namespace)
        keys == sync_calls[namespace].keys
        payload == token.payload
        written == {keys[i] : i \in {j \in 1..Len(keys) :
                        token.kind = "object" /\ payload[keys[j]] # Absent}}
    IN IF ss[flag] = TRUE THEN ss
       ELSE [k \in DOMAIN ss |->
                IF k = flag THEN TRUE
                ELSE IF k \in written THEN payload[k]
                ELSE ss[k]]

\* The body of sync_state_from_url(namespace, keys=..., coercers=...) on the
\* session ss with the query parameter token.
sync_state_from_url_keys(ss, namespace, token) ==
    LET flag == flag_of(namespace)
        keys == sync_calls[namespace].keys
        is_text == token.kind \notin {"missing", "empty_list"}
        is_dict == token.kind = "object"
        payload == token.payload
        written == {keys[i] : i \in {j \in 1..Len(keys) :
                        /\ is_text /\ token.kind # "blank" /\ is_dict
                        /\ payload[keys[j]] # Absent
                        /\ ss[keys[j]] = Absent}}
        v(k) == IF k \in sync_calls[namespace].coercers THEN coerce_iso_date(payload[k])
                ELSE payload[k]
    IN IF ss[flag] = TRUE THEN ss
       ELSE [k \in DOMAIN ss |->
                IF k = flag THEN TRUE
                ELSE IF k \in written THEN v(k)
                ELSE ss[k]]

\* ---- inputs of the hydration specification

PayloadValues == {"x", "2024-01-02"}

Payloads ==
    {p \in [StateKeys -> PayloadValues \cup {Absent}] :
        p["app_page"] # "2024-01-02" /\ p["nav_group"] # "2024-01-02" /\ p["bi_view"] # "2024-01-02"}

UrlTokens ==
    {UrlToken(kind, NoPayload) : kind \in {"missing", "empty_list", "blank", "undecodable", "non_object"}}
    \cup {UrlToken("object", p) : p \in Payloads}

\* Sessions in which the user has set some of the keys and no call has run.
SyncSessions ==
    {[k \in StateKeys \cup FlagKeys |->
         IF k \in FlagKeys THEN FALSE ELSE IF k \in set THEN "user" ELSE Absent] :
       set \in SUBSET StateKeys}

\* ---- the hydration specification: calls of sync_state_from_url in one
\* ---- session, and widgets writing keys between them

InitSync ==
    /\ pc = "start"
    /\ raised = FALSE
    /\ CombinerIdle
    /\ LoaderIdle
    /\ UploaderIdle
    /\ SeedIdle
    /\ session_state \in SyncSessions
    /\ query_params \in UrlTokens
    /\ value = [namespace |-> NoneValue, before |-> session_state]
    /\ returned = NoOut
    /\ halaman = NoneValue
    /\ kategori_index = NoneValue
    /\ keyed_identity = TRUE
    /\ passes = 0
    /\ last_request = NoneValue

SyncStateFromUrl(namespace) ==
    /\ passes < MaxPasses
    /\ session_state' = sync_state_from_url_keys(session_state, namespace, query_params)
    /\ value' = [namespace |-> namespace, before |-> session_state]
    /\ passes' = passes + 1
    /\ pc' = "synced"
    /\ UNCHANGED <<raised, pipelineVars, seedVars, returned, query_params, halaman,
                   kategori_index, keyed_identity, last_request>>

\* app.py line 55.
SyncApp == SyncStateFromUrl("app")

\* bi_data.py line 133.
SyncBi == SyncStateFromUrl("bi")

\* A widget or a setdefault of a page stores a value under a key.
WidgetWrites ==
    /\ pc = "synced"
    /\ \E k \in StateKeys :
          /\ session_state[k] = Absent
          /\ session_state' = [session_state EXCEPT ![k] = "user"]
    /\ value' = [namespace |-> NoneValue, before |-> session_state]
    /\ pc' = "start"
    /\ UNCHANGED <<raised, pipelineVars, seedVars, returned, query_params, halaman,
                   kategori_index, keyed_identity, passes, last_request>>

NextSync ==
    \/ SyncApp
    \/ SyncBi
    \/ WidgetWrites

SpecSync == InitSync /\ [][NextSync]_vars

\* ---- claims on the hydration specification

\* The keys whose value the last call changed, flags aside.
KeysWritten == {k \in StateKeys : session_state[k] # value.before[k]}

CalledSync == value.namespace \in DOMAIN sync_calls

KeyList(namespace) ==
    {sync_calls[namespace].keys[i] : i \in 1..Len(sync_calls[namespace].keys)}

\* C21: sync_state_from_url hydrates at most once per session and namespace
\* and never overwrites user state: after a call for a namespace its loaded
\* flag is set, and a call that finds the flag set changes nothing; a first
\* call writes a key only if the key is in the requested key list, present in
\* the decoded payload and absent from session state; a missing, undecodable
\* or non-object token writes no key except the flag; the flag of the other
\* namespace is left alone.
C21_HydratesOnceNeverOverwrites ==
    CalledSync =>
        /\ session_state[flag_of(value.namespace)] = TRUE
        /\ value.before[flag_of(value.namespace)] = TRUE => session_state = value.before
        /\ \A k \in KeysWritten :
              /\ k \in KeyList(value.namespace)
              /\ query_params.kind = "object"
              /\ query_params.payload[k] # Absent
              /\ value.before[k] = Absent
        /\ query_params.kind # "object" => KeysWritten = {}
        /\ \A f \in FlagKeys \ {flag_of(value.namespace)} : session_state[f] = value.before[f]

\* A first call for "bi" has written a key from the payload and has left alone
\* a key of its list that the user had set and the payload holds too.
C21_Witness ==
    /\ CalledSync
    /\ value.namespace = "bi"
    /\ KeysWritten # {}
    /\ \E k \in KeyList("bi") : value.before[k] = "user" /\ query_params.payload[k] # Absent

\* A later call for a namespace, after a widget has written a key.
C21_WitnessLaterCall ==
    /\ CalledSync
    /\ value.before[flag_of(value.namespace)] = TRUE
    /\ query_params.kind = "object"
    /\ \E k \in KeyList(value.namespace) :
          session_state[k] = "user" /\ query_params.payload[k] \notin {Absent, "user"}

\* ------------------------------------------------- the scrapers (scraping/)

\* A JSON value of a response: text, a number, null, or a key the object does
\* not have.
JText(text) == [json |-> "string", text |-> text]

JNumber == [json |-> "number", text |-> "5.75"]

JNull == [json |-> "null", text |-> "null"]

JMissing == [json |-> "missing", text |-> ""]

\* What a scraper gets back from session.post(...) and the calls after it.
Response(kind, items) == [kind |-> kind, items |-> items]

\* The outcome of the body of the inner try for one item: the record, or the
\* name of the exception.
Parsed(rec) == [exc |-> "", rec |-> rec]

Fails(exc) == [exc |-> exc, rec |-> <<>>]

\* datetime.strptime(item['tanggal'], '%d/%m/%Y')
strptime_dmy(v) ==
    IF v.json = "missing" THEN Fails("KeyError")
    ELSE IF v.json # "string" THEN Fails("TypeError")
    ELSE IF v.text = "17/12/2025" THEN Parsed(<<2025, 12, 17>>)
    ELSE IF v.text = "18/12/2025" THEN Parsed(<<2025, 12, 18>>)
    ELSE Fails("ValueError")

\* float(item['nilai'].replace(',', '.')), in hundredths
float_nilai(v) ==
    IF v.json = "missing" THEN Fails("KeyError")
    ELSE IF v.json # "string" THEN Fails("AttributeError")
    ELSE IF v.text = "5,75" THEN Parsed(<<575>>)
    ELSE IF v.text = "6.00" THEN Parsed(<<600>>)
    ELSE Fails("ValueError")

\* The try body of the loop of scrape_bi_7day_rr and of scrape_kurs_jisdor.
parse_daily_item(item) ==
    LET tanggal == strptime_dmy(item.tanggal)
        rate == float_nilai(item.nilai)
    IN IF tanggal.exc # "" THEN tanggal
       ELSE IF rate.exc # "" THEN rate
       ELSE Parsed(<<tanggal.rec, rate.rec[1]>>)

\* bulan_map of scrape_inflasi, for the month names used here.
bulan_map == ("Januari" :> 1) @@ ("Desember" :> 12)

\* The try body of the loop of scrape_inflasi(year): a record, no record for a
\* month name bulan_map does not hold (exc "skip"), or an exception.
parse_inflasi_item(item, year) ==
    LET inflasi == float_nilai(item.nilai)
    IN IF item.bulan.json = "missing" THEN Fails("KeyError")
       ELSE IF inflasi.exc # "" THEN inflasi
       ELSE IF item.bulan.json # "string" \/ item.bulan.text \notin DOMAIN bulan_map
            THEN Fails("skip")
       ELSE Parsed(<<<<year, bulan_map[item.bulan.text], 1>>, inflasi.rec[1]>>)

\* The inner except clause: (ValueError, KeyError) are printed and the loop
\* goes on; any other exception leaves the loop.
InnerCaught == {"ValueError", "KeyError", "skip"}

\* df.sort_values('Tanggal'): the records by date, equal dates in list order.
DateLess(a, b) ==
    \/ a[1] < b[1]
    \/ a[1] = b[1] /\ a[2] < b[2]
    \/ a[1] = b[1] /\ a[2] = b[2] /\ a[3] < b[3]

RECURSIVE insert_by_date(_, _)
insert_by_date(rec, sorted) ==
    IF sorted = <<>> THEN <<rec>>
    ELSE IF DateLess(rec[1], Head(sorted)[1]) THEN <<rec>> \o sorted
    ELSE <<Head(sorted)>> \o insert_by_date(rec, Tail(sorted))

RECURSIVE sort_by_date(_)
sort_by_date(records) ==
    IF records = <<>> THEN <<>>
    ELSE insert_by_date(records[Len(records)], sort_by_date(SubSeq(records, 1, Len(records) - 1)))

\* None, and a DataFrame of records.
NoFrame == [is_none |-> TRUE, records |-> <<>>]

Frame(records) == [is_none |-> FALSE, records |-> records]

\* The outer try of a scrape method, given the outcome of the loop body for
\* each item: request errors, a bad status, a body that is not JSON, a falsy
\* body or one without 'data' and an empty record list give None, and so does
\* any exception the inner except clause does not name.
scrape(response, outcomes) ==
    LET uncaught == \E i \in 1..Len(outcomes) :
                        outcomes[i].exc # "" /\ outcomes[i].exc \notin InnerCaught
        records == SelectSeq(outcomes, LAMBDA o : o.exc = "")
    IN IF response.kind # "data" THEN NoFrame
       ELSE IF uncaught THEN NoFrame
       ELSE IF records = <<>> THEN NoFrame
       ELSE Frame(sort_by_date([i \in 1..Len(records) |-> records[i].rec]))

scrape_bi_7day_rr(response) ==
    scrape(response, [i \in 1..Len(response.items) |-> parse_daily_item(response.items[i])])

scrape_kurs_jisdor(response) ==
    scrape(response, [i \in 1..Len(response.items) |-> parse_daily_item(response.items[i])])

scrape_inflasi(response, year) ==
    scrape(response, [i \in 1..Len(response.items) |-> parse_inflasi_item(response.items[i], year)])

\* datetime.now().year of the run modelled.
current_year == 2025

\* ---- inputs of the scraper specification

MaxItems == 2

DailyItems ==
    {[tanggal |-> JText("17/12/2025"), nilai |-> JText("5,75")],
     [tanggal |-> JText("18/12/2025"), nilai |-> JText("6.00")],
     [tanggal |-> JText("2025-12-17"), nilai |-> JText("5,75")],
     [tanggal |-> JText("17/12/2025"), nilai |-> JMissing],
     [tanggal |-> JText("17/12/2025"), nilai |-> JNumber]}

InflasiItems ==
    {[bulan |-> JText("Januari"), nilai |-> JText("5,75")],
     [bulan |-> JText("Desember"), nilai |-> JText("6.00")],
     [bulan |-> JText("January"), nilai |-> JText("5,75")],
     [bulan |-> JMissing, nilai |-> JText("5,75")],
     [bulan |-> JText("Januari"), nilai |-> JText("n/a")],
     [bulan |-> JText("Januari"), nilai |-> JNull]}

\* A request that raises, a status raise_for_status() rejects, a body that is
\* not JSON, a falsy body, a body without 'data', a body whose 'data' is null.
FailedResponses ==
    {Response(kind, <<>>) : kind \in {"connection_error", "http_error", "not_json", "empty",
                                       "no_data_key", "data_null"}}

ResponsesOf(items) ==
    FailedResponses \cup {Response("data", s) : s \in UNION {[1..n -> items] : n \in 0..MaxItems}}

\* ---- the scraper specification: one run of run_all_scrapers.main()

ScrapeSteps == <<"bi_7day_rr", "kurs_jisdor", "inflasi_current", "inflasi_previous">>

NoRun == [attempted |-> <<>>, saved |-> <<>>, result |-> NoFrame]

InitScrape ==
    /\ pc = "start"
    /\ raised = FALSE
    /\ CombinerIdle
    /\ LoaderIdle
    /\ UploaderIdle
    /\ SeedIdle
    /\ AppIdle
    /\ value = Response("none", <<>>)
    /\ returned = NoRun

\* One numbered block of main(): the scrape call, and save_data when the
\* result is not None; save_ok is what save_data returns.
ScrapeStep(step, response, result, save_ok) ==
    /\ value' = response
    /\ returned' = [attempted |-> Append(returned.attempted, step),
                    saved |-> IF ~result.is_none /\ save_ok THEN Append(returned.saved, step)
                              ELSE returned.saved,
                    result |-> result]
    /\ UNCHANGED <<raised, pipelineVars, seedVars, appVars>>

ScrapeBi ==
    /\ pc = "start"
    /\ \E response \in ResponsesOf(DailyItems), save_ok \in BOOLEAN :
          ScrapeStep("bi_7day_rr", response, scrape_bi_7day_rr(response), save_ok)
    /\ pc' = "bi_done"

ScrapeKurs ==
    /\ pc = "bi_done"
    /\ \E response \in ResponsesOf(DailyItems), save_ok \in BOOLEAN :
          ScrapeStep("kurs_jisdor", response, scrape_kurs_jisdor(response), save_ok)
    /\ pc' = "kurs_done"

ScrapeInflasiCurrent ==
    /\ pc = "kurs_done"
    /\ \E response \in ResponsesOf(InflasiItems), save_ok \in BOOLEAN :
          ScrapeStep("inflasi_current", response, scrape_inflasi(response, current_year), save_ok)
    /\ pc' = "inflasi_done"

ScrapeInflasiPrevious ==
    /\ pc = "inflasi_done"
    /\ \E response \in ResponsesOf(InflasiItems), save_ok \in BOOLEAN :
          ScrapeStep("inflasi_previous", response, scrape_inflasi(response, current_year - 1), save_ok)
    /\ pc' = "done"

NextScrape ==
    \/ ScrapeBi
    \/ ScrapeKurs
    \/ ScrapeInflasiCurrent
    \/ ScrapeInflasiPrevious

SpecScrape == InitScrape /\ [][NextScrape]_vars

\* ---- claims on the scraper specification

Scraped == returned.attempted # <<>>

LastStep == returned.attempted[Len(returned.attempted)]

\* The outcome of the loop body for item i of the last response.
OutcomeOf(i) ==
    IF LastStep \in {"bi_7day_rr", "kurs_jisdor"} THEN parse_daily_item(value.items[i])
    ELSE parse_inflasi_item(value.items[i],
                            IF LastStep = "inflasi_current" THEN current_year ELSE current_year - 1)

GoodItems == {i \in 1..Len(value.items) : OutcomeOf(i).exc = ""}

RecordsOf(frame) == {frame.records[i] : i \in 1..Len(frame.records)}

\* No scrape raises, and a request error, a bad status, a malformed response
\* or zero valid records give None.
C22_LogAndReturnEmpty ==
    /\ raised = FALSE
    /\ Scraped /\ (value.kind # "data" \/ GoodItems = {}) => returned.result.is_none

\* All four steps are attempted in order whatever the earlier steps gave, and
\* only results that are not None are saved.
C22_AllAttemptedInOrder ==
    /\ returned.attempted = SubSeq(ScrapeSteps, 1, Len(returned.attempted))
    /\ pc = "done" => returned.attempted = ScrapeSteps
    /\ Scraped /\ returned.result.is_none =>
           \A i \in 1..Len(returned.saved) : returned.saved[i] # LastStep

\* A record that fails with ValueError or KeyError, or whose month name is
\* unknown, is skipped and the others are kept.
C22_CaughtRecordSkipped ==
    (Scraped /\ value.kind = "data" /\ GoodItems # {}
       /\ \A i \in 1..Len(value.items) : OutcomeOf(i).exc \in InnerCaught \cup {""})
        => /\ ~returned.result.is_none
           /\ RecordsOf(returned.result) = {OutcomeOf(i).rec : i \in GoodItems}

\* C22: scraper failure is 'log and return empty' and is isolated: a scrape
\* returns None and raises nothing on any request error, bad status,
\* malformed response or zero valid records; a record that fails to parse is
\* skipped without aborting the others, so the result holds the record of
\* every item that parses; run_all_scrapers attempts BI rate, exchange rate
\* and both inflation years in that order whatever failed before, and saves
\* only results that are not empty.
C22_ScraperFailureIsolated ==
    /\ C22_LogAndReturnEmpty
    /\ C22_AllAttemptedInOrder
    /\ (Scraped /\ value.kind = "data" /\ GoodItems # {})
          => /\ ~returned.result.is_none
             /\ RecordsOf(returned.result) = {OutcomeOf(i).rec : i \in GoodItems}

\* -------------------------------- inflation layout loaders (utils.py 47-248)

\* A workbook read with header=None: name is the base name of its path, raw
\* the rows of the sheet, each a sequence of cells.  exists, std_cols and rows
\* are what the fallback path of _parse_inflasi_excel_file looks at.
Workbook(name, readable, raw) ==
    [name |-> name, exists |-> TRUE, readable |-> readable, raw |-> raw,
     std_cols |-> FALSE, rows |-> <<>>]

\* range(min(len(raw), 50)) and range(min(len(raw), 80)).
NasionalScanRows == 50

ProvinsiScanRows == 80

\* [str(v).strip().lower() for v in row if not (isinstance(v, float) and
\* pd.isna(v))]
row_vals(row) ==
    LET present == SelectSeq(row, LAMBDA c : ~isna(c))
    IN [j \in 1..Len(present) |-> lower(strip(astype_str(present[j])))]

\* The test of the national header loop on one row.
is_header_nasional(row) ==
    LET vals == row_vals(row)
    IN /\ \E j \in 1..Len(vals) : vals[j] = <<"p", "e", "r", "i", "o", "d", "e">>
       /\ \E j \in 1..Len(vals) : contains(vals[j], <<"i", "n", "f", "l", "a", "s", "i">>)

\* The test of the provincial header loop on one row.
is_header_provinsi(row) ==
    LET lowered == row_vals(row)
    IN /\ \E j \in 1..Len(lowered) : lowered[j] = <<"j", "a", "n", "u", "a", "r", "i">>
       /\ \E j \in 1..Len(lowered) : lowered[j] = <<"d", "e", "s", "e", "m", "b", "e", "r">>

\* A header loop that looks at every row of the sheet.
first_hit_unbounded(hits, len, scan_rows) ==
    IF hits = {} THEN 0 ELSE CHOOSE i \in hits : \A k \in hits : i <= k

\* for i in range(min(len(raw), scan_rows)): if <test>: header_idx = i; break.
\* hits are the rows that pass the test; the result is the row number counted
\* from 1, 0 standing for None.
first_hit(hits, len, scan_rows) ==
    LET last == IF len < scan_rows THEN len ELSE scan_rows
        seen == {i \in hits : i <= last}
    IN IF seen = {} THEN 0 ELSE CHOOSE i \in seen : \A k \in seen : i <= k

find_header_nasional(raw) ==
    first_hit({i \in 1..Len(raw) : is_header_nasional(raw[i])}, Len(raw), NasionalScanRows)

find_header_provinsi(raw) ==
    first_hit({i \in 1..Len(raw) : is_header_provinsi(raw[i])}, Len(raw), ProvinsiScanRows)

\* The largest member of a set of column numbers, 0 for the empty set.
last_of(cols) == IF cols = {} THEN 0 ELSE CHOOSE j \in cols : \A k \in cols : k <= j

\* _parse_periode_bulan_tahun: (bulan, tahun), 0 standing for None.
parse_periode_bulan_tahun(c) ==
    LET s == strip(astype_str(c))
        parts == split(s)
        tahun == int_of(strip(parts[Len(parts)]))
    IN IF isna(c) \/ s = <<>> \/ Len(parts) < 2 THEN [bulan |-> 0, tahun |-> 0, has_tahun |-> FALSE]
       ELSE [bulan |-> id_month_get(lower(strip(parts[1]))),
             tahun |-> IF tahun.ok THEN tahun.v ELSE 0,
             has_tahun |-> tahun.ok]

\* raw.iat[i, col] if col < raw.shape[1] else None
cell_at(row, col) == IF col <= Len(row) THEN row[col] ELSE NaN

\* The frame a layout loader returns, and the header row it settled on.
Loaded(header_idx, df) == [header_idx |-> header_idx, df |-> df, exc |-> FALSE]

\* _load_inflasi_nasional_excel.
load_inflasi_nasional_excel(wb) ==
    LET raw == wb.raw
        header_idx == find_header_nasional(raw)
        header_row == [j \in 1..Len(raw[header_idx]) |->
                          IF isna(raw[header_idx][j]) THEN <<>>
                          ELSE lower(strip(astype_str(raw[header_idx][j])))]
        periode_col == last_of({j \in 1..Len(header_row) : header_row[j] = <<"p", "e", "r", "i", "o", "d", "e">>})
        inflasi_col == last_of({j \in 1..Len(header_row) : contains(header_row[j], <<"i", "n", "f", "l", "a", "s", "i">>)})
        record(i) ==
            LET periode == parse_periode_bulan_tahun(cell_at(raw[i], periode_col))
                inflasi == parse_rate_percent_utils(cell_at(raw[i], inflasi_col))
            IN IF periode.bulan = 0 \/ ~periode.has_tahun \/ isna(inflasi) THEN <<>>
               ELSE <<InflasiRow(Txt(<<"N", "a", "s", "i", "o", "n", "a", "l">>), Whole(periode.tahun), Whole(periode.bulan), inflasi)>>
        records == Concat([k \in 1..(Len(raw) - header_idx) |-> record(header_idx + k)])
    IN IF ~wb.readable THEN Loaded(0, empty_inflasi_df)
       ELSE IF header_idx = 0 THEN Loaded(0, empty_inflasi_df)
       ELSE IF periode_col = 0 \/ inflasi_col = 0 THEN Loaded(header_idx, empty_inflasi_df)
       ELSE Loaded(header_idx, records)

\* re.findall(r"(19\d{2}|20\d{2})", name): the matches from left to right,
\* none overlapping another.
RECURSIVE findall_year(_)
findall_year(s) ==
    IF Len(s) < 4 THEN <<>>
    ELSE IF /\ SubSeq(s, 1, 2) \in {<<"1", "9">>, <<"2", "0">>}
            /\ IsDigit(s[3])
            /\ IsDigit(s[4])
         THEN <<SubSeq(s, 1, 4)>> \o findall_year(SubSeq(s, 5, Len(s)))
    ELSE findall_year(Tail(s))

\* A year inference that takes the first match.
extract_year_from_filename_first(name) ==
    LET matches == findall_year(name)
    IN IF matches = <<>> THEN 0 ELSE DigitsValue(matches[1])

\* _extract_year_from_filename: int(matches[-1]), 0 standing for None.
extract_year_from_filename(name) ==
    LET matches == findall_year(name)
    IN IF matches = <<>> THEN 0 ELSE DigitsValue(matches[Len(matches)])

\* The prefix loop of the provincial loader.
strip_prov_prefix(prov) ==
    IF Len(prov) >= 5 /\ SubSeq(prov, 1, 5) \in {<<"P", "R", "O", "V", " ">>, <<"P", "r", "o", "v", " ">>, <<"p", "r", "o", "v", " ">>}
    THEN strip(SubSeq(prov, 6, Len(prov)))
    ELSE prov

\* _load_inflasi_tahunan_provinsi_excel(path, tahun), tahun = 0 for None.
load_inflasi_tahunan_provinsi_excel(wb, tahun) ==
    LET raw == wb.raw
        header_idx == find_header_provinsi(raw)
        header_row == [j \in 1..Len(raw[header_idx]) |-> lower(strip(astype_str(raw[header_idx][j])))]
        months == {id_month_get(header_row[j]) : j \in 1..Len(header_row)} \ {0}
        col_of(bulan) == last_of({j \in 1..Len(header_row) : id_month_get(header_row[j]) = bulan})
        first_col(bulan) == CHOOSE j \in 1..Len(header_row) :
                                /\ id_month_get(header_row[j]) = bulan
                                /\ \A k \in 1..(j - 1) : id_month_get(header_row[k]) # bulan
        \* month_cols.items(): the months in the order of their first column
        nth_month(p) == CHOOSE b \in months :
                            Cardinality({c \in months : first_col(c) <= first_col(b)}) = p
        inflasi_of(val) == IF isna(to_numeric(val)) THEN parse_rate_percent_utils(val)
                           ELSE to_numeric(val)
        record(i, bulan) ==
            LET val == cell_at(raw[i], col_of(bulan))
            IN IF isna(val) \/ isna(inflasi_of(val)) THEN <<>>
               ELSE <<InflasiRow(Txt(strip_prov_prefix(strip(astype_str(raw[i][1])))),
                                 IF tahun = 0 THEN NaN ELSE Whole(tahun),
                                 Whole(bulan), inflasi_of(val))>>
        row_records(i) ==
            IF raw[i] = <<>> \/ isna(raw[i][1]) \/ strip(astype_str(raw[i][1])) = <<>> THEN <<>>
            ELSE Concat([p \in 1..Cardinality(months) |-> record(i, nth_month(p))])
        records == Concat([k \in 1..(Len(raw) - header_idx) |-> row_records(header_idx + k)])
        inferred == extract_year_from_filename(wb.name)
        with_year == IF (\E i \in 1..Len(records) : isna(records[i].Tahun)) /\ inferred # 0
                     THEN [i \in 1..Len(records) |-> [records[i] EXCEPT !.Tahun = Whole(inferred)]]
                     ELSE records
    IN IF ~wb.readable THEN Loaded(0, empty_inflasi_df)
       ELSE IF header_idx = 0 THEN Loaded(0, empty_inflasi_df)
       ELSE IF records = <<>> THEN Loaded(header_idx, empty_inflasi_df)
       ELSE Loaded(header_idx, SelectSeq(with_year, dropna_inflasi))

\* _parse_inflasi_excel_file: the loader is chosen by the base name.
parse_inflasi_excel_file_by_name(wb) ==
    IF lower(wb.name) = <<"d", "a", "t", "a", " ", "i", "n", "f", "l", "a", "s", "i", ".", "x", "l", "s", "x">> THEN load_inflasi_nasional_excel(wb)
    ELSE IF contains(lower(wb.name), <<"i", "n", "f", "l", "a", "s", "i", " ", "t", "a", "h", "u", "n", "a", "n">>)
         THEN load_inflasi_tahunan_provinsi_excel(wb, extract_year_from_filename(wb.name))
    ELSE Loaded(0, parse_inflasi_excel_file(wb).df)

\* ---- inputs of the layout specification

MaxBodyRows == 2

TitleRow == <<Txt(<<"D", "a", "t", "a", " ", "I", "n", "f", "l", "a", "s", "i">>), NaN, NaN>>

\* k title rows above the body of a sheet.
Fill(k) == [i \in 1..k |-> TitleRow]

NasionalRows ==
    {<<Txt(<<"N", "o">>), Txt(<<"P", "e", "r", "i", "o", "d", "e">>), Txt(<<"D", "a", "t", "a", " ", "I", "n", "f", "l", "a", "s", "i">>)>>,
     <<NaN, Txt(<<" ", "P", "E", "R", "I", "O", "D", "E", " ">>), Txt(<<"I", "N", "F", "L", "A", "S", "I", " ", "(", "%", ")">>)>>,
     <<Txt(<<"P", "e", "r", "i", "o", "d", "e", " ", "D", "a", "t", "a">>), Txt(<<"I", "n", "f", "l", "a", "s", "i">>), NaN>>,
     <<Whole(1), Txt(<<"D", "e", "s", "e", "m", "b", "e", "r", " ", "2", "0", "2", "5">>), Txt(<<"2", ",", "5", " ", "%">>)>>,
     <<Whole(2), Txt(<<"J", "a", "n", "u", "a", "r", "i", " ", "2", "0", "2", "5">>), Num(300)>>}

ProvinsiRows ==
    {<<Txt(<<"P", "r", "o", "v", "i", "n", "s", "i">>), Txt(<<"J", "a", "n", "u", "a", "r", "i">>), Txt(<<"D", "e", "s", "e", "m", "b", "e", "r">>)>>,
     <<NaN, Txt(<<" ", "J", "A", "N", "U", "A", "R", "I">>), Txt(<<"d", "e", "s", "e", "m", "b", "e", "r", " ">>)>>,
     <<Txt(<<"J", "a", "n", "u", "a", "r", "i", " ", "2", "0", "2", "5">>), Txt(<<"D", "e", "s", "e", "m", "b", "e", "r">>), NaN>>,
     <<Txt(<<"P", "R", "O", "V", " ", "A", "C", "E", "H">>), Num(250), Txt(<<"3", ",", "1">>)>>,
     <<Txt(<<"B", "a", "l", "i">>), NaN, Txt(<<"n", "/", "a">>)>>}

Bodies(rows) == UNION {[1..n -> rows] : n \in 0..MaxBodyRows}

\* Sheets whose body starts inside, at the edge of, and beyond the scan window.
NasionalSheets ==
    {Fill(k) \o body : k \in {0, 1, NasionalScanRows - 1, NasionalScanRows},
                       body \in Bodies(NasionalRows)}

ProvinsiSheets ==
    {Fill(k) \o body : k \in {0, 1, ProvinsiScanRows - 1, ProvinsiScanRows},
                       body \in Bodies(ProvinsiRows)}

NameNasional == <<"D", "a", "t", "a", " ", "I", "n", "f", "l", "a", "s", "i", ".", "x", "l", "s", "x">>

ProvinsiNames ==
    {<<"I", "n", "f", "l", "a", "s", "i", " ", "T", "a", "h", "u", "n", "a", "n", " ", "(", "Y", "-", "o", "n", "-", "Y", ")", " ", "2", "0", "2", "4", ".", "x", "l", "s", "x">>,
     <<"I", "n", "f", "l", "a", "s", "i", " ", "T", "a", "h", "u", "n", "a", "n", " ", "2", "0", "1", "9", "-", "2", "0", "2", "0", ".", "x", "l", "s", "x">>,
     <<"I", "N", "F", "L", "A", "S", "I", " ", "T", "A", "H", "U", "N", "A", "N", ".", "x", "l", "s", "x">>,
     <<"I", "n", "f", "l", "a", "s", "i", " ", "T", "a", "h", "u", "n", "a", "n", " ", "1", "8", "5", "0", ".", "x", "l", "s", "x">>}

\* The workbook and the argument tahun of a direct call of the provincial
\* loader (0 for None).
LayoutInputs ==
    {[wb |-> Workbook(NameNasional, TRUE, raw), tahun |-> 0] : raw \in NasionalSheets}
    \cup {[wb |-> Workbook(name, TRUE, raw), tahun |-> tahun] :
            name \in ProvinsiNames, raw \in ProvinsiSheets, tahun \in {0, 2023}}
    \cup {[wb |-> Workbook(name, FALSE, <<>>), tahun |-> 0] :
            name \in {NameNasional} \cup ProvinsiNames}

\* ---- the layout specification: one loader applied to one workbook

InitLayout ==
    /\ pc = "start"
    /\ raised = FALSE
    /\ CombinerIdle
    /\ LoaderIdle
    /\ UploaderIdle
    /\ SeedIdle
    /\ AppIdle
    /\ value \in LayoutInputs
    /\ returned = Loaded(0, empty_inflasi_df)

LoaderReturns(result, position) ==
    /\ pc = "start"
    /\ returned' = result
    /\ pc' = position
    /\ UNCHANGED <<raised, value, pipelineVars, seedVars, appVars>>

LoadInflasiNasional ==
    LoaderReturns(load_inflasi_nasional_excel(value.wb), "nasional")

LoadInflasiTahunanProvinsi ==
    LoaderReturns(load_inflasi_tahunan_provinsi_excel(value.wb, value.tahun), "provinsi")

ParseInflasiExcelFile ==
    LoaderReturns(parse_inflasi_excel_file_by_name(value.wb), "parsed")

NextLayout ==
    \/ LoadInflasiNasional
    \/ LoadInflasiTahunanProvinsi
    \/ ParseInflasiExcelFile

SpecLayout == InitLayout /\ [][NextLayout]_vars

\* ---- claims on the layout specification

\* The texts of the cells of a row that are not empty, case and surrounding
\* blanks aside.
CellTexts(row) == {lower(strip(astype_str(row[j]))) : j \in {k \in 1..Len(row) : ~isna(row[k])}}

PeriodeInflasiRows(raw) ==
    {i \in 1..Len(raw) : /\ <<"p", "e", "r", "i", "o", "d", "e">> \in CellTexts(raw[i])
                         /\ \E v \in CellTexts(raw[i]) : contains(v, <<"i", "n", "f", "l", "a", "s", "i">>)}

JanuariDesemberRows(raw) ==
    {i \in 1..Len(raw) : <<"j", "a", "n", "u", "a", "r", "i">> \in CellTexts(raw[i]) /\ <<"d", "e", "s", "e", "m", "b", "e", "r">> \in CellTexts(raw[i])}

\* The first of the rows hits that lies among the first window rows, 0 if none.
FirstInWindow(hits, window) ==
    IF \E i \in hits : i <= window
    THEN CHOOSE i \in hits : i <= window /\ \A k \in hits : i <= k
    ELSE 0

\* C23: header search is bounded and never raises: the national loader takes
\* as header the first row among the first 50 rows that has a cell equal to
\* 'periode' and a cell containing 'inflasi' (case-insensitive), the
\* provincial-annual loader the first row among the first 80 rows holding both
\* 'januari' and 'desember'; when no such row lies inside the window, also
\* when one lies beyond it, the result is the empty table.
C23_HeaderSearchBounded ==
    /\ raised = FALSE
    /\ ~returned.exc
    /\ (pc = "nasional" /\ value.wb.readable) =>
          LET expected == FirstInWindow(PeriodeInflasiRows(value.wb.raw), 50)
          IN /\ returned.header_idx = expected
             /\ expected = 0 => returned.df = empty_inflasi_df
    /\ (pc = "provinsi" /\ value.wb.readable) =>
          LET expected == FirstInWindow(JanuariDesemberRows(value.wb.raw), 80)
          IN /\ returned.header_idx = expected
             /\ expected = 0 => returned.df = empty_inflasi_df

\* A national sheet whose only header row is row 51, with a data row below it.
C23_Witness ==
    /\ pc = "nasional"
    /\ PeriodeInflasiRows(value.wb.raw) = {51}
    /\ Len(value.wb.raw) = 52
    /\ returned.df = empty_inflasi_df

\* A header in row 50 of a national sheet and in row 80 of a provincial sheet
\* is found and the rows below it are read.
C23_WitnessLastRowOfWindow ==
    \/ pc = "nasional" /\ returned.header_idx = 50 /\ returned.df # empty_inflasi_df
    \/ pc = "provinsi" /\ returned.header_idx = 80 /\ returned.df # empty_inflasi_df

C23_WitnessProvinsiBeyond ==
    /\ pc = "provinsi"
    /\ JanuariDesemberRows(value.wb.raw) = {81}
    /\ Len(value.wb.raw) = 82
    /\ returned.df = empty_inflasi_df

\* The start positions of the texts 19dd and 20dd in a name.
YearTokenStarts(name) ==
    {p \in 1..(Len(name) - 3) :
        /\ SubSeq(name, p, p + 1) \in {<<"1", "9">>, <<"2", "0">>}
        /\ IsDigit(name[p + 2])
        /\ IsDigit(name[p + 3])}

\* The last such text as a number, 0 if there is none.
LastYearToken(name) ==
    LET starts == YearTokenStarts(name)
        p == CHOOSE q \in starts : \A r \in starts : r <= q
    IN IF starts = {} THEN 0 ELSE DigitsValue(SubSeq(name, p, p + 3))

\* The rows of the sheet the loader reads when it is given a year.
RowsWithYear(wb) == load_inflasi_tahunan_provinsi_excel(wb, 2023).df

\* The result is the rows read below the header, each with the year y.
HasRowsOfYear(df, wb, y) ==
    /\ Len(df) = Len(RowsWithYear(wb))
    /\ \A i \in 1..Len(df) : df[i] = [RowsWithYear(wb)[i] EXCEPT !.Tahun = Whole(y)]

IsProvinsiName(name) == contains(lower(name), <<"i", "n", "f", "l", "a", "s", "i", " ", "t", "a", "h", "u", "n", "a", "n">>)

\* C24: year inference for the provincial-annual layout: when no year is
\* supplied for the rows, the year is the last 4-digit token 19xx or 20xx of
\* the base name of the file and every row gets it; when the name holds no
\* such token every row of the file is dropped; no row of the result is
\* without a year.
C24_YearFromFileName ==
    /\ pc \in {"provinsi", "parsed"} => \A i \in 1..Len(returned.df) : ~isna(returned.df[i].Tahun)
    /\ (pc = "provinsi" /\ value.tahun = 0) \/ (pc = "parsed" /\ IsProvinsiName(value.wb.name)) =>
          LET y == LastYearToken(value.wb.name)
          IN IF y = 0 THEN returned.df = empty_inflasi_df
             ELSE HasRowsOfYear(returned.df, value.wb, y)

\* A file named with two years whose rows got the later one.
C24_Witness ==
    /\ pc = "provinsi"
    /\ value.tahun = 0
    /\ value.wb.name = <<"I", "n", "f", "l", "a", "s", "i", " ", "T", "a", "h", "u", "n", "a", "n", " ", "2", "0", "1", "9", "-", "2", "0", "2", "0", ".", "x", "l", "s", "x">>
    /\ returned.df # empty_inflasi_df
    /\ \A i \in 1..Len(returned.df) : returned.df[i].Tahun = Whole(2020)

\* A file without a year in its name whose sheet has rows: all are dropped.
C24_WitnessDropped ==
    /\ pc \in {"provinsi", "parsed"}
    /\ value.tahun = 0
    /\ LastYearToken(value.wb.name) = 0
    /\ RowsWithYear(value.wb) # empty_inflasi_df
    /\ returned.df = empty_inflasi_df

\* ------------------------------- backend fetch (supabase_client.py 104-217)

\* provinsi_mapping_pre and provinsi_mapping_post of fetch_inflasi_df: pairs of
\* a spelling and its replacement.
provinsi_mapping_pre ==
    <<<<<<"A", "C", "E", "H">>,
        <<"A", "c", "e", "h">>>>,
      <<<<"B", "A", "L", "I">>,
        <<"B", "a", "l", "i">>>>,
      <<<<"B", "A", "N", "T", "E", "N">>,
        <<"B", "a", "n", "t", "e", "n">>>>,
      <<<<"B", "E", "N", "G", "K", "U", "L", "U">>,
        <<"B", "e", "n", "g", "k", "u", "l", "u">>>>,
      <<<<"D", "I", " ", "Y", "O", "G", "Y", "A", "K", "A", "R", "T", "A">>,
        <<"D", "I", " ", "Y", "o", "g", "y", "a", "k", "a", "r", "t", "a">>>>,
      <<<<"D", "K", "I", " ", "J", "A", "K", "A", "R", "T", "A">>,
        <<"D", "K", "I", " ", "J", "a", "k", "a", "r", "t", "a">>>>,
      <<<<"G", "O", "R", "O", "N", "T", "A", "L", "O">>,
        <<"G", "o", "r", "o", "n", "t", "a", "l", "o">>>>,
      <<<<"J", "A", "M", "B", "I">>,
        <<"J", "a", "m", "b", "i">>>>,
      <<<<"J", "A", "W", "A", " ", "B", "A", "R", "A", "T">>,
        <<"J", "a", "w", "a", " ", "B", "a", "r", "a", "t">>>>,
      <<<<"J", "A", "W", "A", " ", "T", "E", "N", "G", "A", "H">>,
        <<"J", "a", "w", "a", " ", "T", "e", "n", "g", "a", "h">>>>,
      <<<<"J", "A", "W", "A", " ", "T", "I", "M", "U", "R">>,
        <<"J", "a", "w", "a", " ", "T", "i", "m", "u", "r">>>>,
      <<<<"K", "A", "L", "I", "M", "A", "N", "T", "A", "N", " ", "B", "A", "R", "A", "T">>,
        <<"K", "a", "l", "i", "m", "a", "n", "t", "a", "n", " ", "B", "a", "r", "a", "t">>>>,
      <<<<"K", "A", "L", "I", "M", "A", "N", "T", "A", "N", " ", "S", "E", "L", "A", "T", "A", "N">>,
        <<"K", "a", "l", "i", "m", "a", "n", "t", "a", "n", " ", "S", "e", "l", "a", "t", "a", "n">>>>,
      <<<<"K", "A", "L", "I", "M", "A", "N", "T", "A", "N", " ", "T", "E", "N", "G", "A", "H">>,
        <<"K", "a", "l", "i", "m", "a", "n", "t", "a", "n", " ", "T", "e", "n", "g", "a", "h">>>>,
      <<<<"K", "A", "L", "I", "M", "A", "N", "T", "A", "N", " ", "T", "I", "M", "U", "R">>,
        <<"K", "a", "l", "i", "m", "a", "n", "t", "a", "n", " ", "T", "i", "m", "u", "r">>>>,
      <<<<"K", "A", "L", "I", "M", "A", "N", "T", "A", "N", " ", "U", "T", "A", "R", "A">>,
        <<"K", "a", "l", "i", "m", "a", "n", "t", "a", "n", " ", "U", "t", "a", "r", "a">>>>,
      <<<<"K", "E", "P", "U", "L", "A", "U", "A", "N", " ", "B", "A", "N", "G", "K", "A", " ", "B", "E", "L", "I", "T", "U", "N", "G">>,
        <<"B", "a", "n", "g", "k", "a", " ", "B", "e", "l", "i", "t", "u", "n", "g">>>>,
      <<<<"K", "E", "P", "U", "L", "A", "U", "A", "N", " ", "R", "I", "A", "U">>,
        <<"K", "e", "p", "u", "l", "a", "u", "a", "n", " ", "R", "i", "a", "u">>>>,
      <<<<"L", "A", "M", "P", "U", "N", "G">>,
        <<"L", "a", "m", "p", "u", "n", "g">>>>,
      <<<<"M", "A", "L", "U", "K", "U">>,
        <<"M", "a", "l", "u", "k", "u">>>>,
      <<<<"P", "A", "P", "U", "A", " ", "B", "A", "R", "A", "T", " ", "D", "A", "Y", "A">>,
        <<"P", "a", "p", "u", "a", " ", "B", "a", "r", "a", "t", " ", "D", "a", "y", "a">>>>>>

provinsi_mapping_post ==
    <<<<<<"D", "i", " ", "Y", "o", "g", "y", "a", "k", "a", "r", "t", "a">>,
        <<"D", "I", " ", "Y", "o", "g", "y", "a", "k", "a", "r", "t", "a">>>>,
      <<<<"D", "k", "i", " ", "J", "a", "k", "a", "r", "t", "a">>,
        <<"D", "K", "I", " ", "J", "a", "k", "a", "r", "t", "a">>>>,
      <<<<"K", "e", "p", ".", " ", "B", "a", "n", "g", "k", "a", " ", "B", "e", "l", "i", "t", "u", "n", "g">>,
        <<"B", "a", "n", "g", "k", "a", " ", "B", "e", "l", "i", "t", "u", "n", "g">>>>,
      <<<<"K", "e", "p", ".", " ", "R", "i", "a", "u">>,
        <<"K", "e", "p", "u", "l", "a", "u", "a", "n", " ", "R", "i", "a", "u">>>>,
      <<<<"K", "e", "p", "u", "l", "a", "u", "a", "n", " ", "B", "a", "n", "g", "k", "a", " ", "B", "e", "l", "i", "t", "u", "n", "g">>,
        <<"B", "a", "n", "g", "k", "a", " ", "B", "e", "l", "i", "t", "u", "n", "g">>>>,
      <<<<"K", "e", "p", "u", "l", "a", "u", "a", "n", " ", "R", "i", "a", "u">>,
        <<"K", "e", "p", "u", "l", "a", "u", "a", "n", " ", "R", "i", "a", "u">>>>>>

\* Series.replace(mapping) on one value: a value that is a key is replaced.
replace_value(v, mapping) ==
    IF \E i \in 1..Len(mapping) : mapping[i][1] = v
    THEN mapping[CHOOSE i \in 1..Len(mapping) : mapping[i][1] = v][2]
    ELSE v

IsLetter(c) == IndexIn(c, UpperCase) > 0 \/ IndexIn(c, LowerCase) > 0

UpperChar(c) == IF IndexIn(c, LowerCase) > 0 THEN UpperCase[IndexIn(c, LowerCase)] ELSE c

\* str.title(): a letter that follows no letter is upper-cased, every other
\* letter lower-cased.
title(s) ==
    [i \in 1..Len(s) |-> IF i = 1 \/ ~IsLetter(s[i - 1]) THEN UpperChar(s[i]) ELSE LowerChar(s[i])]

\* A canonicalization without the second mapping.
canonical_provinsi_no_post(p) == title(replace_value(p, provinsi_mapping_pre))

\* Lines 179-197: replace, title case, replace.
canonical_provinsi(p) ==
    replace_value(title(replace_value(p, provinsi_mapping_pre)), provinsi_mapping_post)

\* A row of the table inflasi as the backend delivers it.
FetchedRow(p, t, b, i) == [provinsi |-> p, tahun |-> t, bulan |-> b, inflasi |-> i]

\* What _fetch_table_data gives: no client, a failed request, or the rows, in
\* columns the rename map knows or not.
Fetched(kind, rows) == [kind |-> kind, rows |-> rows]

GroupKey(p, t, b) == [Provinsi |-> p, Tahun |-> t, Bulan |-> b]

\* Order of sort_values(["Tahun", "Bulan", "Provinsi"]).
FetchKeyLess(a, b) ==
    \/ a.Tahun < b.Tahun
    \/ a.Tahun = b.Tahun /\ a.Bulan < b.Bulan
    \/ a.Tahun = b.Tahun /\ a.Bulan = b.Bulan /\ StrLess(a.Provinsi, b.Provinsi)

RECURSIVE SumSeq(_)
SumSeq(s) == IF s = <<>> THEN 0 ELSE Head(s) + SumSeq(Tail(s))

\* The mean of a group as the fraction num / den of hundredths.
mean(rates) == [num |-> SumSeq(rates), den |-> Len(rates)]

\* No table (None), and a table.
NoTable == [is_none |-> TRUE, rows |-> <<>>]

Table(rows) == [is_none |-> FALSE, rows |-> rows]

\* fetch_inflasi_df.
fetch_inflasi_df(fetched) ==
    LET data == fetched.rows
        named == [i \in 1..Len(data) |->
                     [data[i] EXCEPT !.provinsi = canonical_provinsi(data[i].provinsi)]]
        key_of(r) == GroupKey(r.provinsi, r.tahun, r.bulan)
        keys == {key_of(named[i]) : i \in 1..Len(named)}
        group(k) == SelectSeq(named, LAMBDA r : key_of(r) = k)
        rate(k) == mean([i \in 1..Len(group(k)) |-> group(k)[i].inflasi])
        nth(p) == CHOOSE k \in keys : Cardinality({j \in keys : FetchKeyLess(j, k)}) = p - 1
    IN IF fetched.kind # "rows" \/ data = <<>> THEN NoTable
       ELSE Table([p \in 1..Cardinality(keys) |->
                      [Provinsi |-> nth(p).Provinsi, Tahun |-> nth(p).Tahun,
                       Bulan |-> nth(p).Bulan, Inflasi |-> rate(nth(p))]])

\* ---- inputs of the fetch specification

MaxFetched == 2

FetchedProvinsi ==
    {<<"A", "C", "E", "H">>, <<"a", "c", "e", "h">>, <<"K", "e", "p", ".", " ", "R", "i", "a", "u">>, <<"K", "E", "P", "U", "L", "A", "U", "A", "N", " ", "R", "I", "A", "U">>, <<"K", "e", "p", "u", "l", "a", "u", "a", "n", " ", "R", "i", "a", "u">>, <<"D", "I", " ", "Y", "O", "G", "Y", "A", "K", "A", "R", "T", "A">>}

FetchedRows ==
    {FetchedRow(p, 2024, b, i) : p \in FetchedProvinsi, b \in {1, 2}, i \in {100, 250}}

\* Backends that deliver rows, and the ways a backend delivers none: the
\* module supabase_client failed to import, no client, a failed request,
\* columns the rename map does not know, an exception that leaves
\* fetch_inflasi_df.
FetchedInputs ==
    {Fetched(kind, <<>>) : kind \in {"no_module", "no_client", "fetch_error", "other_columns", "raises"}}
    \cup {Fetched("rows", rows) : rows \in UNION {[1..n -> FetchedRows] : n \in 0..MaxFetched}}

NoLocalFiles == [i \in 1..2 |-> InflasiFile(FALSE, FALSE, FALSE, <<>>)]

\* The two workbooks of the combiner: both missing, one unreadable, one with
\* a usable row, one with rows that all lack a month.
LocalFiles ==
    {NoLocalFiles,
     <<InflasiFile(TRUE, FALSE, FALSE, <<>>), InflasiFile(FALSE, FALSE, FALSE, <<>>)>>,
     <<InflasiFile(TRUE, TRUE, TRUE, <<InflasiRow(Txt(Aceh), Whole(2025), Whole(1), Num(300))>>),
       InflasiFile(FALSE, FALSE, FALSE, <<>>)>>,
     <<InflasiFile(FALSE, FALSE, FALSE, <<>>),
       InflasiFile(TRUE, TRUE, TRUE, <<InflasiRow(Txt(Aceh), Whole(2024), NaN, Num(300))>>)>>}

\* The sources of one call: the backend, the local workbooks, and whether an
\* exception comes up inside baca_data_inflasi_excel.
Sources(backend, fs, excel_fails) ==
    [backend |-> backend, files |-> fs, excel_fails |-> excel_fails]

SourceInputs ==
    {Sources(backend, NoLocalFiles, FALSE) : backend \in FetchedInputs}
    \cup {Sources(backend, fs, excel_fails) :
            backend \in {f \in FetchedInputs : Len(f.rows) <= 1 /\ (f.rows # <<>> => f.rows[1].bulan = 1)},
            fs \in LocalFiles, excel_fails \in BOOLEAN}

\* A loader that gives the empty table when the backend gives nothing.
baca_data_inflasi_no_fallback(sources) ==
    LET df_sb == fetch_inflasi_df(sources.backend)
    IN IF ~df_sb.is_none /\ df_sb.rows # <<>>
       THEN [source |-> "supabase", df |-> df_sb.rows, exc |-> FALSE]
       ELSE [source |-> "empty", df |-> empty_inflasi_df, exc |-> FALSE]

\* baca_data_inflasi(file_path=None): the table, df.attrs["source"], and
\* whether an exception leaves the function.
baca_data_inflasi(sources) ==
    LET df_sb == fetch_inflasi_df(sources.backend)
        excel == baca_data_inflasi_excel(sources.files)
    IN IF /\ sources.backend.kind \notin {"no_module", "raises"}
          /\ ~df_sb.is_none
          /\ df_sb.rows # <<>>
       THEN [source |-> "supabase", df |-> df_sb.rows, exc |-> FALSE]
       ELSE IF sources.excel_fails \/ excel.exc
            THEN [source |-> "empty", df |-> empty_inflasi_df, exc |-> FALSE]
       ELSE [source |-> IF excel.df = empty_inflasi_df THEN "empty" ELSE "excel:combined",
             df |-> excel.df, exc |-> FALSE]

\* ---- the source specification: one call of fetch_inflasi_df or of
\* ---- baca_data_inflasi

InitFetch ==
    /\ pc = "start"
    /\ raised = FALSE
    /\ CombinerIdle
    /\ LoaderIdle
    /\ UploaderIdle
    /\ SeedIdle
    /\ AppIdle
    /\ value \in SourceInputs
    /\ returned = NoTable

FetchInflasiDf ==
    /\ pc = "start"
    /\ value.backend.kind \notin {"no_module", "raises"}
    /\ returned' = fetch_inflasi_df(value.backend)
    /\ pc' = "fetched"
    /\ UNCHANGED <<raised, value, pipelineVars, seedVars, appVars>>

BacaDataInflasi ==
    /\ pc = "start"
    /\ LET r == baca_data_inflasi(value)
       IN /\ returned' = r
          /\ raised' = r.exc
    /\ pc' = "read"
    /\ UNCHANGED <<value, pipelineVars, seedVars, appVars>>

NextFetch ==
    \/ FetchInflasiDf
    \/ BacaDataInflasi

SpecFetch == InitFetch /\ [][NextFetch]_vars

\* ---- claims on the fetch specification

\* Every spelling of the two mapping tables, and every replacement.
MappingSpellings ==
    {provinsi_mapping_pre[i][k] : i \in 1..Len(provinsi_mapping_pre), k \in 1..2}
    \cup {provinsi_mapping_post[i][k] : i \in 1..Len(provinsi_mapping_post), k \in 1..2}

\* The spellings of one region: those that differ only in case, a key and its
\* replacement, 'Kep.' and 'Kepulauan'.
SameRegion ==
    {<<provinsi_mapping_pre[i][1], provinsi_mapping_pre[i][2]>> : i \in 1..Len(provinsi_mapping_pre)}
    \cup {<<provinsi_mapping_post[i][1], provinsi_mapping_post[i][2]>> : i \in 1..Len(provinsi_mapping_post)}
    \cup {<<a, b>> \in MappingSpellings \X MappingSpellings : lower(a) = lower(b)}

\* The fetched rows that canonicalize to the key of a row of the result.
RowsOfKey(row) ==
    {i \in 1..Len(value.backend.rows) :
        /\ canonical_provinsi(value.backend.rows[i].provinsi) = row.Provinsi
        /\ value.backend.rows[i].tahun = row.Tahun
        /\ value.backend.rows[i].bulan = row.Bulan}

RECURSIVE SumOver(_)
SumOver(idx) ==
    IF idx = {} THEN 0
    ELSE LET i == CHOOSE j \in idx : TRUE IN value.backend.rows[i].inflasi + SumOver(idx \ {i})

\* The spellings of one region get the same canonical spelling.
VariantsToOneSpelling ==
    \A pair \in SameRegion : canonical_provinsi(pair[1]) = canonical_provinsi(pair[2])

\* Canonicalizing a canonical spelling changes nothing.
CanonicalIdempotent ==
    \A p \in MappingSpellings \cup FetchedProvinsi :
        canonical_provinsi(canonical_provinsi(p)) = canonical_provinsi(p)

\* C25: region canonicalization precedes dedup in the backend fetch path:
\* every spelling variant of a region in the mapping tables goes to one fixed
\* spelling, the mapping is idempotent on its own outputs, and the returned
\* table has exactly one row per (Provinsi, Tahun, Bulan), whose rate is the
\* arithmetic mean of all fetched rows that canonicalize to that key.
C25_CanonicalizeBeforeDedup ==
    /\ VariantsToOneSpelling
    /\ CanonicalIdempotent
    /\ (pc = "fetched" /\ ~returned.is_none) =>
          LET df == returned.rows
          IN /\ \A i, j \in 1..Len(df) :
                   (df[i].Provinsi = df[j].Provinsi /\ df[i].Tahun = df[j].Tahun
                      /\ df[i].Bulan = df[j].Bulan) => i = j
             /\ \A i \in 1..Len(df) :
                   /\ RowsOfKey(df[i]) # {}
                   /\ df[i].Inflasi.num * Cardinality(RowsOfKey(df[i]))
                        = SumOver(RowsOfKey(df[i])) * df[i].Inflasi.den
             /\ \A k \in 1..Len(value.backend.rows) : \E i \in 1..Len(df) : k \in RowsOfKey(df[i])

\* 'Kep. Riau' and 'KEPULAUAN RIAU' of the same month, with different rates,
\* have become one row.
C25_Witness ==
    /\ pc = "fetched"
    /\ Len(value.backend.rows) = 2
    /\ value.backend.rows[1].provinsi = <<"K", "e", "p", ".", " ", "R", "i", "a", "u">>
    /\ value.backend.rows[2].provinsi = <<"K", "E", "P", "U", "L", "A", "U", "A", "N", " ", "R", "I", "A", "U">>
    /\ value.backend.rows[1].inflasi # value.backend.rows[2].inflasi
    /\ Len(returned.rows) = 1
    /\ returned.rows[1].Provinsi = <<"K", "e", "p", "u", "l", "a", "u", "a", "n", " ", "R", "i", "a", "u">>

\* The backend delivers a table with rows.
BackendHasTable ==
    /\ value.backend.kind = "rows"
    /\ value.backend.rows # <<>>

\* C27: data-source fallback order: baca_data_inflasi called without a path
\* returns the backend table exactly when the backend fetch succeeds with a
\* non-empty table; otherwise (backend not configured, fetch returns nothing,
\* fetch raises) it returns the combined local-file table, and if that also
\* fails the empty table; no failure of either source reaches the caller.
C27_FallbackOrder ==
    /\ raised = FALSE
    /\ pc = "read" =>
          /\ ~returned.exc
          /\ returned.source = "supabase" <=> BackendHasTable
          /\ BackendHasTable => returned.df = fetch_inflasi_df(value.backend).rows
          /\ (~BackendHasTable /\ ~value.excel_fails) =>
                returned.df = baca_data_inflasi_excel(value.files).df
          /\ (~BackendHasTable /\ value.excel_fails) =>
                returned.df = empty_inflasi_df /\ returned.source = "empty"

\* The request to the backend fails and the local workbook has a usable row:
\* the caller gets the combined local table.
C27_Witness ==
    /\ pc = "read"
    /\ value.backend.kind = "fetch_error"
    /\ returned.source = "excel:combined"
    /\ returned.df # empty_inflasi_df

\* Both sources fail and the caller gets the empty table.
C27_WitnessBothFail ==
    /\ pc = "read"
    /\ value.backend.kind = "raises"
    /\ value.excel_fails
    /\ value.files # NoLocalFiles
    /\ returned.df = empty_inflasi_df

\* The backend table wins over usable local workbooks.
C27_WitnessBackend ==
    /\ pc = "read"
    /\ returned.source = "supabase"
    /\ baca_data_inflasi_excel(value.files).df # empty_inflasi_df

\* ------------------- the two sinks side by side: seed statements and
\* upload batches applied to one store

\* parser.add_argument("--batch-size", type=int, default=500).
DefaultBatchSize == 500

MaxSinkRows == 3

\* int(row["Tahun"]), int(row["Bulan"]) of a numeric cell.
py_int(c) == [t |-> "int", n |-> c.n \div 100, s |-> <<>>, ts |-> NaT]

\* float(row[...]) of a numeric cell.
py_float(c) == Num(c.n)

\* A literal of the seed file: null, a number as str() prints it, or a quoted
\* text; a date is the quoted text of strftime("%Y-%m-%d"), held as its
\* year, month and day.
Literal(kind, n, s, d) == [kind |-> kind, n |-> n, s |-> s, d |-> d]

\* s.replace("'", "''")
replace_quote(s) ==
    Concat([k \in 1..Len(s) |-> IF s[k] = "'" THEN <<"'", "'">> ELSE <<s[k]>>])

\* _sql_literal(value)
sql_literal(v) ==
    IF v.t = "nan" THEN Literal("null", 0, <<>>, <<>>)
    ELSE IF v.t = "int" THEN Literal("int", v.n, <<>>, <<>>)
    ELSE IF v.t = "num" THEN Literal("float", v.n, <<>>, <<>>)
    ELSE IF v.t = "ts"
         THEN IF v.ts = NaT THEN Literal("null", 0, <<>>, <<>>)
              ELSE Literal("date", 0, <<>>, <<v.ts.y, v.ts.m, v.ts.d>>)
    ELSE Literal("text", 0, <<"'">> \o replace_quote(v.s) \o <<"'">>, <<>>)

\* The tuples of one statement as _sql_literal prints them: (p, t, b, i) of
\* _emit_inserts_inflasi with int(), int() and float(), (d, r) of the two
\* daily emitters with float().
values_sql(tbl, part) ==
    [k \in 1..Len(part) |->
        IF tbl = "inflasi"
        THEN <<sql_literal(part[k][1]), sql_literal(py_int(part[k][2])),
               sql_literal(py_int(part[k][3])), sql_literal(py_float(part[k][4]))>>
        ELSE <<sql_literal(DateCell(part[k][1])), sql_literal(py_float(part[k][2]))>>]

\* The statements of one table as the seed file holds them.
seed_statements(tbl, df) ==
    LET written == IF tbl = "inflasi" THEN emit_inserts_inflasi(df, DefaultChunkSize)
                   ELSE IF tbl = "bi_7day_rr" THEN emit_inserts_bi(df, DefaultChunkSize)
                   ELSE emit_inserts_jisdor(df, DefaultChunkSize)
    IN [k \in 1..Len(written) |->
           IF written[k].kind = "insert"
           THEN [written[k] EXCEPT !.values = values_sql(tbl, @)]
           ELSE written[k]]

\* The column types of _write_schema.
ColumnType ==
    [provinsi |-> "text", tahun |-> "int", bulan |-> "int", inflasi |-> "numeric",
     tanggal |-> "date", bi_7day_rr |-> "numeric", kurs |-> "numeric"]

\* The text between the quotes of a literal, '' read as one quote.
RECURSIVE undouble(_)
undouble(s) ==
    IF s = <<>> THEN <<>>
    ELSE IF Len(s) >= 2 /\ s[1] = "'" /\ s[2] = "'"
         THEN <<"'">> \o undouble(SubSeq(s, 3, Len(s)))
    ELSE <<s[1]>> \o undouble(Tail(s))

\* The value a column of the given type takes from a literal.
pg_value(lit, type) ==
    IF type = "text" THEN undouble(SubSeq(lit.s, 2, Len(lit.s) - 1))
    ELSE IF type = "date" THEN lit.d
    ELSE IF type = "numeric" /\ lit.kind = "int" THEN 100 * lit.n
    ELSE lit.n

\* ON CONFLICT DO NOTHING: a stored key keeps its metric.
execute_insert_do_nothing(store, stmt) ==
    LET pos(c)   == CHOOSE i \in 1..Len(stmt.columns) : stmt.columns[i] = c
        key(row) == [i \in 1..Len(stmt.on_conflict) |->
                        pg_value(row[pos(stmt.on_conflict[i])], ColumnType[stmt.on_conflict[i]])]
        ks       == [k \in 1..Len(stmt.values) |-> key(stmt.values[k])]
        ms       == [k \in 1..Len(stmt.values) |->
                        pg_value(stmt.values[k][pos(stmt.update)], ColumnType[stmt.update])]
        keys     == {ks[k] : k \in 1..Len(ks)}
    IN IF stmt.kind # "insert" THEN store
       ELSE [k \in (DOMAIN store) \cup keys |->
                IF k \in DOMAIN store THEN store[k]
                ELSE ms[CHOOSE j \in 1..Len(ks) : ks[j] = k]]

\* One statement "insert into ... values ... on conflict (<key>) do update set
\* <metric> = excluded.<metric>" on a store held as a map from key to metric:
\* every tuple sets the metric of its key.  A statement that names a key twice
\* is rejected and changes nothing; a comment changes nothing.
execute_insert(store, stmt) ==
    LET pos(c)   == CHOOSE i \in 1..Len(stmt.columns) : stmt.columns[i] = c
        key(row) == [i \in 1..Len(stmt.on_conflict) |->
                        pg_value(row[pos(stmt.on_conflict[i])], ColumnType[stmt.on_conflict[i]])]
        ks       == [k \in 1..Len(stmt.values) |-> key(stmt.values[k])]
        ms       == [k \in 1..Len(stmt.values) |->
                        pg_value(stmt.values[k][pos(stmt.update)], ColumnType[stmt.update])]
        keys     == {ks[k] : k \in 1..Len(ks)}
    IN IF stmt.kind # "insert" THEN store
       ELSE IF Cardinality(keys) # Len(ks) THEN store
       ELSE [k \in (DOMAIN store) \cup keys |->
                IF k \in keys THEN ms[CHOOSE j \in 1..Len(ks) : ks[j] = k]
                ELSE store[k]]

\* The statements of the file, run in the order in which they were written.
RECURSIVE execute_statements(_, _)
execute_statements(store, statements) ==
    IF statements = <<>> THEN store
    ELSE execute_statements(execute_insert(store, Head(statements)), Tail(statements))

\* The requests lo..hi of one _upsert_in_batches call, sent in order: the first
\* half of them, then the second half on the store the first half left.
RECURSIVE upsert_range(_, _, _, _, _)
upsert_range(store, batches, lo, hi, on_conflict) ==
    IF lo > hi THEN store
    ELSE IF lo = hi THEN upsert(store, batches[lo], on_conflict)
    ELSE LET mid   == (lo + hi) \div 2
             first == upsert_range(store, batches, lo, mid, on_conflict)
         IN IF first = {} THEN upsert_range({}, batches, mid + 1, hi, on_conflict)
            ELSE upsert_range(first, batches, mid + 1, hi, on_conflict)

\* The requests of one _upsert_in_batches call, sent in order.
upsert_batches(store, batches, on_conflict) ==
    upsert_range(store, batches, 1, Len(batches), on_conflict)

\* The payload of the upload script for one table.
payload_rows(tbl, df) ==
    IF tbl = "inflasi" THEN df_to_inflasi_rows(df)
    ELSE IF tbl = "bi_7day_rr" THEN df_to_bi_rows(df)
    ELSE df_to_jisdor_rows(df)

\* The metric column of each table: the one "do update set" names.
UpdateColumn == [inflasi |-> "inflasi", bi_7day_rr |-> "bi_7day_rr", kurs_jisdor |-> "kurs"]

\* A table held as the set of its rows, read as a map from key to metric.
store_map(rows, tbl) ==
    [k \in {conflict_key(r, OnConflict[tbl]) : r \in rows} |->
        (CHOOSE r \in rows : conflict_key(r, OnConflict[tbl]) = k)[UpdateColumn[tbl]]]

\* ---- inputs of the sink specification

\* A name that holds a quote.
QuotedName == <<"D", "'", "I">>

\* Row k of a canonical inflation table: two provinces, month after month,
\* one row per (province, year, month).
CanonInflasiRow(k) ==
    InflasiRow(Txt(IF k % 2 = 1 THEN Aceh ELSE QuotedName),
               Whole(2000 + ((k - 1) \div 24)), Whole((((k - 1) \div 2) % 12) + 1), Num(k))

\* Row k of a canonical daily table: one row per day, at midnight or at noon.
CanonDailyRow(k) ==
    TableRow(k, Timestamp(2000 + ((k - 1) \div 336), (((k - 1) \div 28) % 12) + 1,
                          ((k - 1) % 28) + 1, 12 * (k % 2)), Num(k))

CanonTable(tbl, n) ==
    [k \in 1..n |-> IF tbl = "inflasi" THEN CanonInflasiRow(k) ELSE CanonDailyRow(k)]

\* Table sizes: the small ones and those around the chunk size.
SinkSizes ==
    (0..MaxSinkRows) \cup {DefaultChunkSize - 1, DefaultChunkSize, DefaultChunkSize + 1}

\* The stores a run starts from: empty, or holding the first key of the table
\* with another metric and a key the table does not have.
SinkStores(tbl) ==
    {{},
     IF tbl = "inflasi"
     THEN {[provinsi |-> Aceh, tahun |-> 2000, bulan |-> 1, inflasi |-> 777],
           [provinsi |-> Bali, tahun |-> 1999, bulan |-> 12, inflasi |-> 888]}
     ELSE IF tbl = "bi_7day_rr"
     THEN {[tanggal |-> <<2000, 1, 1>>, bi_7day_rr |-> 777],
           [tanggal |-> <<1999, 12, 31>>, bi_7day_rr |-> 888]}
     ELSE {[tanggal |-> <<2000, 1, 1>>, kurs |-> 777],
           [tanggal |-> <<1999, 12, 31>>, kurs |-> 888]}}

SinkInputs ==
    UNION {UNION {{[table |-> tbl, df |-> CanonTable(tbl, n), store |-> st, batch_size |-> b] :
                      st \in SinkStores(tbl)} :
                    n \in SinkSizes, b \in (1..MaxBatchSize) \cup {DefaultBatchSize}} :
             tbl \in {Tables[t] : t \in 1..Len(Tables)}}

NoStores == [seed |-> <<>>, upload |-> <<>>]

\* ---- the sink specification: the statements of the seed file and the
\* batches of the upload script, each applied to the same store

InitSinks ==
    /\ pc = "start"
    /\ raised = FALSE
    /\ CombinerIdle
    /\ LoaderIdle
    /\ UploaderIdle
    /\ SeedIdle
    /\ AppIdle
    /\ value \in SinkInputs
    /\ returned = NoStores

\* The seed file run on the store.
RunSeedFile ==
    /\ pc = "start"
    /\ returned' = [returned EXCEPT
           !.seed = execute_statements(store_map(value.store, value.table),
                                       seed_statements(value.table, value.df))]
    /\ pc' = "seed_applied"
    /\ UNCHANGED <<raised, value, pipelineVars, seedVars, appVars>>

\* The _upsert_in_batches call of the table on the same store.
RunUpload ==
    /\ pc = "seed_applied"
    /\ returned' = [returned EXCEPT
           !.upload = store_map(
               upsert_batches(value.store,
                              upsert_in_batches(payload_rows(value.table, value.df),
                                                batch_size_of(value.batch_size), FALSE),
                              OnConflict[value.table]),
               value.table)]
    /\ pc' = "sinks_applied"
    /\ UNCHANGED <<raised, value, pipelineVars, seedVars, appVars>>

NextSinks ==
    \/ RunSeedFile
    \/ RunUpload

SpecSinks == InitSinks /\ [][NextSinks]_vars

\* The natural keys of a payload, one per row when the table is canonical.
CanonicalTable ==
    LET rows == payload_rows(value.table, value.df)
    IN Cardinality({conflict_key(rows[k], OnConflict[value.table]) : k \in 1..Len(rows)})
           = Len(rows)

\* C26: the two sinks are interchangeable: for a canonical table and any
\* initial store, read as a map from natural key to metric, the statements of
\* the seed generator applied in order leave the store as the batches of the
\* upload script do.
C26_SinksInterchangeable ==
    (pc = "sinks_applied" /\ CanonicalTable) => returned.seed = returned.upload

\* Both sinks have run on a populated store with a table of more than one
\* chunk, sent in more than one batch, that rewrites a stored key, holds a
\* name with a quote and leaves one stored key alone.
C26_Witness ==
    /\ pc = "sinks_applied"
    /\ CanonicalTable
    /\ value.table = "inflasi"
    /\ Len(value.df) > DefaultChunkSize
    /\ value.batch_size < Len(value.df)
    /\ value.store # {}
    /\ returned.seed[<<Aceh, 2000, 1>>] = 1
    /\ returned.seed[<<Bali, 1999, 12>>] = 888
    /\ <<QuotedName, 2000, 1>> \in DOMAIN returned.upload

\* Both sinks have run with a daily table whose rows carry a time of day.
C26_WitnessDaily ==
    /\ pc = "sinks_applied"
    /\ CanonicalTable
    /\ value.table = "kurs_jisdor"
    /\ Len(value.df) >= 2
    /\ value.store # {}
    /\ returned.upload[<<<<2000, 1, 1>>>>] = 1
    /\ <<<<2000, 1, 2>>>> \in DOMAIN returned.seed

\* ---- further claims on the application specification

\* The first render pass of a session routes to the landing page.
C28_OpensOnDashboard == passes = 1 => halaman = "Dashboard Utama"

\* C28: the landing page is stable: a new session opens on 'Dashboard Utama',
\* and while 'Dashboard Utama' is the page routed to, a further render pass
\* that comes from no sidebar choice and no navigation request (a rerun)
\* routes to 'Dashboard Utama' again.
C28_LandingPageStable ==
    [][/\ (passes = 0 /\ Rerun) => halaman' = "Dashboard Utama"
       /\ (halaman = "Dashboard Utama" /\ session_state.app_page_pending = NoneValue /\ Rerun)
              => halaman' = "Dashboard Utama"]_vars

\* The landing page has been routed to and the session holds no request.
C28_Witness ==
    /\ passes = 1
    /\ halaman = "Dashboard Utama"
    /\ session_state.app_page_pending = NoneValue
    /\ session_state.app_page = "Visualisasi Inflasi"

\* A request that names no page of the sidebar navigation, or holds only
\* blanks.
InvalidRequest(p) == p # NoneValue /\ (str_strip(p) = "" \/ str_strip(p) \notin all_pages)

\* C29: a pending navigation request is consumed exactly once and validated:
\* the render pass that finds '_app_page_pending' takes it out of the session
\* whether or not it applies it, so that a pass in which no request is staged
\* leaves none behind; a pending text that names no page of the sidebar
\* navigation, or only blanks, leaves app_page as it was: the pass routes and
\* leaves the session as the same pass without the request does.
C29_PendingConsumedOnce ==
    [][/\ Rerun => /\ last_request' = session_state.app_page_pending
                   /\ session_state'.app_page_pending = NoneValue
       /\ (Rerun /\ InvalidRequest(session_state.app_page_pending))
              => /\ apply_pending(session_state).app_page = session_state.app_page
                 /\ LET without == app_main([session_state EXCEPT !.app_page_pending = NoneValue],
                                            query_params, FALSE, kategori_index, keyed_identity)
                    IN /\ halaman' = without.halaman
                       /\ session_state' = without.session]_vars

\* A pass has taken a request that names no page out of the session, and the
\* page is the one of the pass before.
C29_Witness ==
    /\ InvalidRequest(last_request)
    /\ session_state.app_page_pending = NoneValue
    /\ passes >= 2
    /\ halaman \in all_pages

\* A pass has taken a request with blanks around the name of a page and has
\* routed to the page.
C29_WitnessStripped ==
    /\ last_request = " Database BI "
    /\ session_state.app_page_pending = NoneValue
    /\ halaman = "Database BI"

\* A pass has taken a request of blanks only.
C29_WitnessBlank ==
    /\ last_request = "  "
    /\ session_state.app_page_pending = NoneValue

\* ---- the routing specification: one render pass on any session

\* What a URL or an imported view can leave under app_page and nav_group: a
\* listed value, nothing, the landing page, a name that is not listed, a
\* name with blanks around it.
InjectedPages == all_pages \cup {NoneValue, "Dashboard Utama", "Halaman Lain", " Database BI "}

InjectedGroups == (DOMAIN pages_by_group) \cup {NoneValue, "Kategori Lain", "Database BI"}

AnySessions ==
    [app_page : InjectedPages, nav_group : InjectedGroups,
     app_page_pending : {NoneValue, "Database BI", "Halaman Lain"},
     url_state_loaded_app : BOOLEAN]

InitRoute ==
    /\ pc = "start"
    /\ raised = FALSE
    /\ CombinerIdle
    /\ LoaderIdle
    /\ UploaderIdle
    /\ ParserIdle
    /\ SeedIdle
    /\ session_state \in AnySessions
    /\ query_params \in {NoToken, Token("Database Kurs"), Token("Halaman Lain")}
    /\ halaman = NoneValue
    /\ kategori_index = NoneValue
    /\ keyed_identity \in BOOLEAN
    /\ passes = 0
    /\ last_request = NoneValue

\* main() on the session as it was found.
RouteSession ==
    /\ passes = 0
    /\ RenderPass(session_state, FALSE, NoneValue)

\* main() in the run that the button "Dashboard Utama" starts.
RouteSessionFromButton ==
    /\ passes = 0
    /\ RenderPass(session_state, TRUE, NoneValue)

NextRoute ==
    \/ RouteSession
    \/ RouteSessionFromButton

SpecRoute == InitRoute /\ [][NextRoute]_vars

\* C30: the routed page is always a known page: after a render pass on any
\* session, whatever it held under app_page and nav_group, the session holds
\* under app_page, the key of the radio "Navigasi", a page of the selected
\* category, and the page routed to is 'Dashboard Utama' or a listed page: the
\* branch for a page that is not recognised is not reached.
C30_RoutedPageKnown ==
    passes = 1 =>
        /\ session_state.nav_group \in DOMAIN pages_by_group
        /\ session_state.app_page \in PagesOf(session_state.nav_group)
        /\ halaman \in all_pages \cup {"Dashboard Utama"}

\* A pass has run on a session that held a request for a page that is not
\* listed, and has routed to a listed page.
C30_WitnessUnlistedRequest ==
    /\ passes = 1
    /\ halaman = "Visualisasi Inflasi"
    /\ last_request = "Halaman Lain"
    /\ session_state.nav_group = "Data Inflasi"
    /\ ~keyed_identity

\* A pass has run on a session whose page was of another category than the
\* selected one, and has routed to a page of the selected category.
C30_Witness ==
    /\ passes = 1
    /\ session_state.nav_group = "Tools"
    /\ halaman = "Kalkulator Mata Uang"
    /\ kategori_index = "Data BI"

====
